---- MODULE Spec2Model ----
(***************************************************************************)
(* Model of the map view of the observation browser                        *)
(* (frontend/src/app/map.tsx, component ClimbingMap) and of the page that  *)
(* feeds it (frontend/src/app/page.tsx).                                   *)
(*                                                                         *)
(* Coordinates are signed decimal degrees; the model draws them from the   *)
(* integers, and draws bounds whose spans are multiples of gridSize, so    *)
(* the IEEE-double arithmetic of the source is exact on every modelled     *)
(* input.  A mean (a quotient of a sum by a count) is kept as a fraction   *)
(* in lowest terms.                                                        *)
(*                                                                         *)
(* A JavaScript object is modelled as a record; its identity, which React  *)
(* compares in its bail-out and in effect dependencies, is the field ref:  *)
(* 0 for the objects of the observations prop, n > 0 for the object built  *)
(* from the response to the n-th increment request.                        *)
(***************************************************************************)
EXTENDS Integers, Sequences, FiniteSets, TLC

\* ------------------------------------------------------------------------
\* Bounds of the model
\* ------------------------------------------------------------------------
\* number of increment-view requests one behaviour may issue
MaxRequests == 3
\* length of the observation lists given to the pure functions
MaxLen == 3
\* number of object URLs the creation form creates for previews
MaxPreviews == 2
\* number of create requests the creation form issues
MaxSubmits == 2
\* number of files in one selection of the file input
MaxBatch == 2

\* ------------------------------------------------------------------------
\* Program constants and values
\* ------------------------------------------------------------------------
MIN_ZOOM_LEVEL == 6
\* default value of createClusters' gridSize parameter
DefaultGridSize == 10
\* JavaScript undefined, for a numeric field or prop that is absent
Undefined == -1
\* null of a useState<Observation | null>; a held object x is <<x>>
Null == <<>>

Obs(id, user, lng, lat, views, ref) ==
    [id |-> id, user_id |-> user, longitude |-> lng, latitude |-> lat,
     views |-> views, ref |-> ref]

\* the observations prop handed to ClimbingMap (ids unique, server-assigned)
PropObservations ==
    << Obs(1, 2, -115, 35, 42, 0),
       Obs(2, 1, -119, 31, 18, 0),
       Obs(3, 3, -105, 50, 7, 0) >>

\* viewer identities: anonymous browsing, and user 1 (who owns observation 2)
Viewers == {Undefined, 1}

Bnd(minLng, minLat, maxLng, maxLat) ==
    [minLng |-> minLng, minLat |-> minLat, maxLng |-> maxLng, maxLat |-> maxLat]

View(b, zoom) ==
    [minLng |-> b.minLng, minLat |-> b.minLat, maxLng |-> b.maxLng,
     maxLat |-> b.maxLat, zoom |-> zoom]

\* what map.getBounds() / map.getZoom() may report
MapBounds == { Bnd(-120, 30, -110, 40), Bnd(-130, 20, -100, 60) }
MapZooms == {5, 6}
Viewports == { View(b, z) : b \in MapBounds, z \in MapZooms }

\* ------------------------------------------------------------------------
\* Arithmetic helpers
\* ------------------------------------------------------------------------
Abs(x) == IF x < 0 THEN -x ELSE x

RECURSIVE GCD(_, _)
GCD(a, b) == IF b = 0 THEN a ELSE GCD(b, a % b)

\* sum / n of the source, as a fraction in lowest terms (n > 0)
Mean(sum, n) ==
    LET g == GCD(Abs(sum), n)
    IN  [num |-> IF sum < 0 THEN -(Abs(sum) \div g) ELSE sum \div g, den |-> n \div g]

\* Math.floor(a / (r / gridSize)) for integers a, r: the quotient a*gridSize/r
\* rounded down; division by a zero cell size gives Infinity, -Infinity or NaN
FloorCell(a, r, gridSize) ==
    LET n == a * gridSize
    IN  IF r > 0 THEN [kind |-> "int", n |-> n \div r]
        ELSE IF r < 0 THEN [kind |-> "int", n |-> (-n) \div (-r)]
        ELSE IF a > 0 THEN [kind |-> "Infinity", n |-> 0]
        ELSE IF a < 0 THEN [kind |-> "-Infinity", n |-> 0]
        ELSE [kind |-> "NaN", n |-> 0]

RECURSIVE SumLng(_)
SumLng(s) == IF s = <<>> THEN 0 ELSE Head(s).longitude + SumLng(Tail(s))

RECURSIVE SumLat(_)
SumLat(s) == IF s = <<>> THEN 0 ELSE Head(s).latitude + SumLat(Tail(s))

\* ------------------------------------------------------------------------
\* Spatial filter (updateVisibleObservations, the filter call)
\* ------------------------------------------------------------------------
\* the filter with the upper edges excluded
InBoundsExclusiveMax(obs, b) ==
    /\ obs.longitude >= b.minLng
    /\ obs.longitude < b.maxLng
    /\ obs.latitude >= b.minLat
    /\ obs.latitude < b.maxLat

InBounds(obs, b) ==
    /\ obs.longitude >= b.minLng
    /\ obs.longitude <= b.maxLng
    /\ obs.latitude >= b.minLat
    /\ obs.latitude <= b.maxLat

filtered(obsList, b) == SelectSeq(obsList, LAMBDA obs : InBounds(obs, b))

\* ------------------------------------------------------------------------
\* Grid clusterer (createClusters)
\* ------------------------------------------------------------------------
cellKey(obs, b, gridSize) ==
    << FloorCell(obs.longitude - b.minLng, b.maxLng - b.minLng, gridSize),
       FloorCell(obs.latitude - b.minLat, b.maxLat - b.minLat, gridSize) >>

\* the grouping with clusterMap[cellKey] = [obs] in place of the push
PushCellOverwrite(cmap, key, obs) ==
    IF \E i \in 1..Len(cmap) : cmap[i].key = key
    THEN [i \in 1..Len(cmap) |->
            IF cmap[i].key = key
            THEN [key |-> key, members |-> << obs >>]
            ELSE cmap[i]]
    ELSE Append(cmap, [key |-> key, members |-> << obs >>])

\* clusterMap[cellKey].push(obs), with the keys kept in insertion order:
\* a sequence of [key, members]
PushCell(cmap, key, obs) ==
    IF \E i \in 1..Len(cmap) : cmap[i].key = key
    THEN [i \in 1..Len(cmap) |->
            IF cmap[i].key = key
            THEN [key |-> key, members |-> Append(cmap[i].members, obs)]
            ELSE cmap[i]]
    ELSE Append(cmap, [key |-> key, members |-> <<obs>>])

RECURSIVE clusterMap(_, _, _, _)
clusterMap(obsList, b, gridSize, k) ==
    IF k = 0 THEN <<>>
    ELSE PushCell(clusterMap(obsList, b, gridSize, k - 1),
                  cellKey(obsList[k], b, gridSize), obsList[k])

\* a center with the two coordinate sums exchanged
ClusterOfSwapped(obsList) ==
    [center |-> [lat |-> Mean(SumLng(obsList), Len(obsList)),
                 lng |-> Mean(SumLat(obsList), Len(obsList))],
     count |-> Len(obsList)]

ClusterOf(obsList) ==
    [center |-> [lat |-> Mean(SumLat(obsList), Len(obsList)),
                 lng |-> Mean(SumLng(obsList), Len(obsList))],
     count |-> Len(obsList)]

createClusters(obsList, b, gridSize) ==
    IF Len(obsList) = 0 THEN <<>>
    ELSE LET cmap == clusterMap(obsList, b, gridSize, Len(obsList))
         IN  [i \in 1..Len(cmap) |-> ClusterOf(cmap[i].members)]

\* ------------------------------------------------------------------------
\* State of the map view
\* ------------------------------------------------------------------------
VARIABLES
    mounted,              \* ClimbingMap is rendered (FALSE once a render has thrown)
    mapReady,             \* mapRef.current is set
    loaded,               \* the map's load event has been handled
    timerPending,         \* the 100ms settling timer has not fired yet
    mapView,              \* the map library's bounds and zoom
    initialObservations,  \* the observations prop
    timerObservations,    \* initialObservations in the closure the settling timer calls
    reported,             \* the argument of the last onViewportChange call, or Null
    currentUserId,        \* the currentUserId prop (page.tsx: user?.id)
    selectedObs,          \* useState selectedObs
    observations,         \* useState observations (individual markers)
    clusters,             \* useState clusters
    fullScreenObs,        \* useState fullScreenObs
    pending,              \* increment-view requests whose fetch chain has not settled
    serverViews,          \* the backend's view counter of each observation
    issued,               \* number of increment-view requests issued so far
    sinceSelect           \* requests issued since the last marker click

\* inputs and outputs of the pure functions, checked on their own
VARIABLES fnObs, fnBounds, fnStep, fnFiltered, fnClusters

\* the creation form (CreateObservationForm)
VARIABLES
    form,                 \* the useState values of the component
    token,                \* useAuth().token; isAuthenticated is !!token
    batch,                \* the handleFileChange call suspended at its await, or Null
    upload,               \* the handleSubmit call suspended at its fetch, or Null
    created,              \* number of URL.createObjectURL calls (preview n is the n-th)
    revoked,              \* preview |-> number of URL.revokeObjectURL calls on it
    formGone,             \* the page has unmounted the form
    adoptedFrom,          \* preview whose GPS the form's coordinates were taken from, or 0
    manualPick,           \* a map click chose the coordinates the form holds
    sent                  \* number of create requests issued

\* the page (Home)
VARIABLES
    allObservations,      \* useState allObservations
    loading,              \* useState loading
    error,                \* useState error: Null or << message >>
    showCreateForm,       \* useState showCreateForm
    fetches,              \* the fetchObservations calls whose promise chain has not settled
    fetched               \* number of fetchObservations calls so far

\* the session (AuthProvider); its useState token is the variable token
VARIABLES
    authUser,             \* useState user of the provider: Null or << user >>
    authLoading,          \* useState loading of the provider
    localStorage,         \* the entries auth_token and auth_user: Null or << text >>
    verifying,            \* the loadAuth call suspended at its fetch of /auth/me, or Null
    logins,               \* the login calls suspended at one of their fetches
    loginCount,           \* number of login calls so far
    rejected,             \* the login calls whose promise rejected
    reloads,              \* number of page reloads so far
    loggedOut             \* logout was called and no login call has started since

mapVars == << mounted, mapReady, loaded, timerPending, mapView, initialObservations,
              timerObservations, reported,
              currentUserId, selectedObs, observations, clusters, fullScreenObs,
              pending, serverViews, issued, sinceSelect >>
fnVars == << fnObs, fnBounds, fnStep, fnFiltered, fnClusters >>
formVars == << form, token, batch, upload, created, revoked, formGone,
               adoptedFrom, manualPick, sent >>
pageVars == << allObservations, loading, error, showCreateForm, fetches, fetched >>
authVars == << authUser, authLoading, localStorage, verifying, logins, loginCount,
               rejected, reloads, loggedOut >>
vars == << mapVars, fnVars, formVars, pageVars, authVars >>

ObsIds == { PropObservations[i].id : i \in 1..Len(PropObservations) }

\* the backend's row of an observation id
StoredObs(id) ==
    PropObservations[CHOOSE i \in 1..Len(PropObservations) : PropObservations[i].id = id]

MapInit ==
    /\ mounted = TRUE
    /\ mapReady = FALSE
    /\ loaded = FALSE
    /\ timerPending = TRUE
    /\ mapView = View(Bnd(-130, 20, -100, 60), 5)
    /\ initialObservations = PropObservations
    /\ timerObservations = PropObservations
    /\ reported = Null
    /\ currentUserId \in Viewers
    /\ selectedObs = Null
    /\ observations = <<>>
    /\ clusters = <<>>
    /\ fullScreenObs = Null
    /\ pending = {}
    /\ serverViews = [id \in ObsIds |-> StoredObs(id).views]
    /\ issued = 0
    /\ sinceSelect = 0

\* ------------------------------------------------------------------------
\* Viewport recomputation (updateVisibleObservations)
\* ------------------------------------------------------------------------
\* the recomputation without setObservations([]) in the zoomed-out branch
updateVisibleObservationsKeepList(list, mv, ready) ==
    IF ~ready
    THEN UNCHANGED << clusters, observations, reported >>
    ELSE LET f == filtered(list, mv)
         IN  /\ reported' = << mv >>
             /\ IF mv.zoom < MIN_ZOOM_LEVEL
                THEN /\ clusters' = createClusters(f, mv, DefaultGridSize)
                     /\ observations' = observations
                ELSE /\ clusters' = <<>>
                     /\ observations' = f

\* the recomputation with the threshold itself counted as zoomed out
updateVisibleObservationsThresholdClustered(list, mv, ready) ==
    IF ~ready
    THEN UNCHANGED << clusters, observations, reported >>
    ELSE LET f == filtered(list, mv)
         IN  /\ reported' = << mv >>
             /\ IF mv.zoom <= MIN_ZOOM_LEVEL
                THEN /\ clusters' = createClusters(f, mv, DefaultGridSize)
                     /\ observations' = <<>>
                ELSE /\ clusters' = <<>>
                     /\ observations' = f

\* the recomputation adding the new clusters to the ones already shown
updateVisibleObservationsAppendClusters(list, mv, ready) ==
    IF ~ready
    THEN UNCHANGED << clusters, observations, reported >>
    ELSE LET f == filtered(list, mv)
         IN  /\ reported' = << mv >>
             /\ IF mv.zoom < MIN_ZOOM_LEVEL
                THEN /\ clusters' = clusters \o createClusters(f, mv, DefaultGridSize)
                     /\ observations' = <<>>
                ELSE /\ clusters' = <<>>
                     /\ observations' = f

\* the recomputation without the check of mapRef.current
updateVisibleObservationsUnguarded(list, mv, ready) ==
    LET f == filtered(list, mv)
    IN  /\ reported' = << mv >>
        /\ IF mv.zoom < MIN_ZOOM_LEVEL
           THEN /\ clusters' = createClusters(f, mv, DefaultGridSize)
                /\ observations' = <<>>
           ELSE /\ clusters' = <<>>
                /\ observations' = f

\* list: initialObservations of the render that created the callback; mv: what
\* the map reports at call time; ready: mapRef.current is set
updateVisibleObservations(list, mv, ready) ==
    IF ~ready
    THEN UNCHANGED << clusters, observations, reported >>
    ELSE LET f == filtered(list, mv)
         IN  /\ reported' = << mv >>
             /\ IF mv.zoom < MIN_ZOOM_LEVEL
                THEN /\ clusters' = createClusters(f, mv, DefaultGridSize)
                     /\ observations' = <<>>
                ELSE /\ clusters' = <<>>
                     /\ observations' = f

\* ------------------------------------------------------------------------
\* Increment-views effect (useEffect on [selectedObs, currentUserId, apiBaseUrl])
\* ------------------------------------------------------------------------
\* the guard without the comparison with the poster
ShouldIncrementAnyOwner(sel, user) ==
    /\ sel # Null
    /\ user # Undefined

\* the guard of the effect body
ShouldIncrement(sel, user) ==
    /\ sel # Null
    /\ user # Undefined
    /\ user # sel[1].user_id

\* the effect runs after a render in which a dependency changed identity
EffectRuns(sel, user) == sel # selectedObs \/ user # currentUserId

\* the effect after a render with selection sel and viewer user; byClick says
\* whether the render was caused by a marker click
\* the backend's answer to POST /observations/{id}/view: the stored
\* observation with its counter raised by one.  The backend counts a request
\* when it is sent, so that answers to two requests for one observation carry
\* the counter values in sending order and may still arrive in either order.
ServerView(id) ==
    [id |-> id, user_id |-> StoredObs(id).user_id,
     longitude |-> StoredObs(id).longitude, latitude |-> StoredObs(id).latitude,
     views |-> serverViews[id] + 1]

\* done: the requests whose fetch chain settles in this step
incrementViewsEffect(sel, user, byClick, done) ==
    IF EffectRuns(sel, user) /\ ShouldIncrement(sel, user)
    THEN /\ issued < MaxRequests
         /\ pending' = (pending \ done) \cup
                {[n |-> issued + 1, id |-> sel[1].id, viewer |-> user,
                  data |-> ServerView(sel[1].id)]}
         /\ serverViews' = [serverViews EXCEPT ![sel[1].id] = @ + 1]
         /\ issued' = issued + 1
         /\ sinceSelect' = IF byClick THEN 1 ELSE sinceSelect + 1
    ELSE /\ pending' = pending \ done
         /\ UNCHANGED << serverViews, issued >>
         /\ sinceSelect' = IF byClick THEN 0 ELSE sinceSelect

\* { ...data, dateposted: ... }: a new object built from the n-th response
mappedData(data, n) ==
    Obs(data.id, data.user_id, data.longitude, data.latitude, data.views, n)

\* the merge with an assignment in place of the comparison
\* (obs.id = mappedData.id is truthy for every entry)
mergeObservationAssign(prev, md) ==
    [i \in 1..Len(prev) |-> md]

\* prev.map(obs => obs.id === mappedData.id ? mappedData : obs)
mergeObservation(prev, md) ==
    [i \in 1..Len(prev) |-> IF prev[i].id = md.id THEN md ELSE prev[i]]

\* ------------------------------------------------------------------------
\* Actions of the map view
\* ------------------------------------------------------------------------
\* the Map component creates the map: mapRef.current becomes available
MapCreated ==
    /\ UNCHANGED << fnVars, formVars, pageVars, authVars >>
    /\ mounted /\ ~mapReady
    /\ mapReady' = TRUE
    /\ \E vp \in Viewports : mapView' = vp
    /\ UNCHANGED << mounted, loaded, timerPending, initialObservations, timerObservations, reported, currentUserId,
                    selectedObs, observations, clusters, fullScreenObs, pending,
                    serverViews, issued, sinceSelect >>

\* onLoad={updateVisibleObservations}
OnLoad ==
    /\ UNCHANGED << fnVars, formVars, pageVars, authVars >>
    /\ mounted /\ mapReady /\ ~loaded
    /\ loaded' = TRUE
    /\ updateVisibleObservations(initialObservations, mapView, mapReady)
    /\ UNCHANGED << mounted, mapReady, timerPending, mapView, initialObservations, timerObservations,
                    currentUserId, selectedObs, fullScreenObs, pending,
                    serverViews, issued, sinceSelect >>

\* the setTimeout(..., 100) of the initial-filter effect fires
SettleTimer ==
    /\ UNCHANGED << fnVars, formVars, pageVars, authVars >>
    /\ mounted /\ timerPending
    /\ timerPending' = FALSE
    /\ updateVisibleObservations(timerObservations, mapView, mapReady)
    /\ UNCHANGED << mounted, mapReady, loaded, mapView, initialObservations, timerObservations,
                    currentUserId, selectedObs, fullScreenObs, pending,
                    serverViews, issued, sinceSelect >>

\* onMoveEnd={handleMoveEnd}: a pan/zoom gesture ended with the map at vp
handleMoveEnd(vp) ==
    /\ UNCHANGED << fnVars, formVars, pageVars, authVars >>
    /\ mounted /\ mapReady
    /\ mapView' = vp
    /\ updateVisibleObservations(initialObservations, vp, mapReady)
    /\ UNCHANGED << mounted, mapReady, loaded, timerPending, initialObservations, timerObservations,
                    currentUserId, selectedObs, fullScreenObs, pending,
                    serverViews, issued, sinceSelect >>

\* a click handler that counts the view locally before the response
clickedObsOptimistic(obs) == [obs EXCEPT !.views = @ + 1]

\* the object the click handler of a marker passes to setSelectedObs
clickedObs(obs) == obs

\* marker onClick: setSelectedObs(obs) for the i-th rendered marker
SelectMarker(i) ==
    /\ UNCHANGED << fnVars, formVars, pageVars, authVars >>
    /\ mounted
    /\ i \in 1..Len(observations)
    /\ selectedObs' = << clickedObs(observations[i]) >>
    /\ incrementViewsEffect(<< clickedObs(observations[i]) >>, currentUserId, TRUE, {})
    /\ UNCHANGED << mounted, mapReady, loaded, timerPending, mapView,
                    initialObservations, timerObservations, reported, currentUserId, observations, clusters,
                    fullScreenObs >>

\* Popup onClose: setSelectedObs(null)
ClosePopup ==
    /\ UNCHANGED << fnVars, formVars, pageVars, authVars >>
    /\ mounted
    /\ selectedObs # Null
    /\ selectedObs' = Null
    /\ UNCHANGED << mounted, mapReady, loaded, timerPending, mapView,
                    initialObservations, timerObservations, reported, currentUserId, observations, clusters,
                    fullScreenObs, pending, serverViews, issued,
                    sinceSelect >>

\* "View Full Screen": setFullScreenObs(selectedObs); setSelectedObs(null)
OpenFullScreen ==
    /\ UNCHANGED << fnVars, formVars, pageVars, authVars >>
    /\ mounted
    /\ selectedObs # Null
    /\ fullScreenObs' = selectedObs
    /\ selectedObs' = Null
    /\ UNCHANGED << mounted, mapReady, loaded, timerPending, mapView,
                    initialObservations, timerObservations, reported, currentUserId, observations, clusters,
                    pending, serverViews, issued, sinceSelect >>

\* the modal's close button or backdrop: setFullScreenObs(null)
CloseFullScreen ==
    /\ UNCHANGED << fnVars, formVars, pageVars, authVars >>
    /\ mounted
    /\ fullScreenObs # Null
    /\ fullScreenObs' = Null
    /\ UNCHANGED << mounted, mapReady, loaded, timerPending, mapView,
                    initialObservations, timerObservations, reported, currentUserId, selectedObs, observations,
                    clusters, pending, serverViews, issued, sinceSelect >>

\* the page re-renders with the viewer known: the session check started at
\* mount resolved (user?.id goes from undefined to the id)
ViewerResolved(u) ==
    /\ UNCHANGED << fnVars, formVars, pageVars, authVars >>
    /\ mounted
    /\ currentUserId = Undefined
    /\ u # Undefined
    /\ currentUserId' = u
    /\ incrementViewsEffect(selectedObs, u, FALSE, {})
    /\ UNCHANGED << mounted, mapReady, loaded, timerPending, mapView,
                    initialObservations, timerObservations, reported, selectedObs, observations, clusters,
                    fullScreenObs >>

\* ------------------------------------------------------------------------
\* The backend and the fetch chain of the increment request
\* ------------------------------------------------------------------------
\* .then(response => response.json()).then(data => ...) on a 2xx response
ResponseSuccess(req) ==
    /\ UNCHANGED << fnVars, formVars, pageVars, authVars >>
    /\ mounted
    /\ req \in pending
    /\ selectedObs' = << mappedData(req.data, req.n) >>
    /\ observations' = mergeObservation(observations, mappedData(req.data, req.n))
    /\ incrementViewsEffect(<< mappedData(req.data, req.n) >>, currentUserId, FALSE, {req})
    /\ UNCHANGED << mounted, mapReady, loaded, timerPending, mapView,
                    initialObservations, timerObservations, reported, currentUserId, clusters, fullScreenObs >>

\* fetch rejects (backend unreachable): .catch logs to the console
ResponseNetworkError(req) ==
    /\ UNCHANGED << fnVars, formVars, pageVars, authVars >>
    /\ mounted
    /\ req \in pending
    /\ pending' = pending \ {req}
    /\ UNCHANGED << mounted, mapReady, loaded, timerPending, mapView,
                    initialObservations, timerObservations, reported, currentUserId, selectedObs, observations,
                    clusters, fullScreenObs, serverViews, issued,
                    sinceSelect >>

\* a non-2xx response whose body is not JSON: response.json() rejects, .catch logs
ResponseErrorNotJson(req) ==
    /\ UNCHANGED << fnVars, formVars, pageVars, authVars >>
    /\ mounted
    /\ req \in pending
    /\ pending' = pending \ {req}
    /\ UNCHANGED << mounted, mapReady, loaded, timerPending, mapView,
                    initialObservations, timerObservations, reported, currentUserId, selectedObs, observations,
                    clusters, fullScreenObs, serverViews, issued,
                    sinceSelect >>

\* the object built from an error body { detail }: no observation field is set
ErrorData ==
    [id |-> Undefined, user_id |-> Undefined, longitude |-> Undefined,
     latitude |-> Undefined, views |-> Undefined]

\* a non-2xx response with a JSON body { detail }: response.ok is not looked
\* at, so the success handler runs on the error body; the next render reads
\* selectedObs.image_urls.map of an object without image_urls and throws
ResponseErrorJson(req) ==
    /\ UNCHANGED << fnVars, formVars, pageVars, authVars >>
    /\ mounted
    /\ req \in pending
    /\ pending' = pending \ {req}
    /\ selectedObs' = << mappedData(ErrorData, req.n) >>
    /\ observations' = mergeObservation(observations, mappedData(ErrorData, req.n))
    /\ mounted' = FALSE
    /\ UNCHANGED << mapReady, loaded, timerPending, mapView, initialObservations, timerObservations, reported,
                    currentUserId, clusters, fullScreenObs, serverViews,
                    issued, sinceSelect >>

MapNext ==
    \/ MapCreated
    \/ OnLoad
    \/ SettleTimer
    \/ \E vp \in Viewports : handleMoveEnd(vp)
    \/ \E i \in 1..Len(PropObservations) : SelectMarker(i)
    \/ ClosePopup
    \/ OpenFullScreen
    \/ CloseFullScreen
    \/ \E u \in Viewers : ViewerResolved(u)
    \/ \E req \in pending : ResponseSuccess(req)
    \/ \E req \in pending : ResponseNetworkError(req)
    \/ \E req \in pending : ResponseErrorNotJson(req)
    \/ \E req \in pending : ResponseErrorJson(req)

\* ------------------------------------------------------------------------
\* Re-renders of the map view by the page
\* ------------------------------------------------------------------------
\* the list of a refetch after observation 3 was deleted and one was created
Refetched == << PropObservations[1], PropObservations[2], Obs(4, 1, -112, 38, 0, 0) >>
PropLists == { PropObservations, Refetched }

\* a re-render that leaves the settling timer of the earlier render running
ObservationsReplacedKeepsTimer(list) ==
    /\ UNCHANGED << fnVars, formVars, pageVars, authVars >>
    /\ mounted
    /\ list # initialObservations
    /\ initialObservations' = list
    /\ UNCHANGED << mounted, mapReady, loaded, timerPending, timerObservations, mapView,
                    reported, currentUserId, selectedObs, observations, clusters,
                    fullScreenObs, pending, serverViews, issued, sinceSelect >>

\* the page renders ClimbingMap with another observations prop:
\* updateVisibleObservations is created anew over the new list, and the
\* settling effect clears its timer and sets one calling the new callback
ObservationsReplaced(list) ==
    /\ UNCHANGED << fnVars, formVars, pageVars, authVars >>
    /\ mounted
    /\ list # initialObservations
    /\ initialObservations' = list
    /\ timerPending' = TRUE
    /\ timerObservations' = list
    /\ UNCHANGED << mounted, mapReady, loaded, mapView, reported, currentUserId,
                    selectedObs, observations, clusters, fullScreenObs, pending,
                    serverViews, issued, sinceSelect >>

\* the page renders again with the same list: handleViewportChange is a new
\* function, so the callback and the settling timer are created anew
ParentRendered ==
    /\ UNCHANGED << fnVars, formVars, pageVars, authVars >>
    /\ mounted
    /\ timerPending' = TRUE
    /\ timerObservations' = initialObservations
    /\ UNCHANGED << mounted, mapReady, loaded, mapView, initialObservations, reported,
                    currentUserId, selectedObs, observations, clusters, fullScreenObs,
                    pending, serverViews, issued, sinceSelect >>

PropsNext ==
    \/ MapCreated
    \/ OnLoad
    \/ SettleTimer
    \/ \E vp \in Viewports : handleMoveEnd(vp)
    \/ \E i \in 1..Len(Refetched) : SelectMarker(i)
    \/ ClosePopup
    \/ \E list \in PropLists : ObservationsReplaced(list)
    \/ ParentRendered

\* ------------------------------------------------------------------------
\* The pure functions on their own
\* ------------------------------------------------------------------------
FnPoints ==
    { << -115, 35 >>, << -119, 31 >>, << -105, 50 >>, << -120, 30 >>,
      << -110, 40 >>, << -120, 36 >>, << -114, 35 >>, << -121, 35 >>,
      << -115, 41 >> }

FnBounds == { Bnd(-120, 30, -110, 40), Bnd(-130, 20, -100, 60), Bnd(-115, 35, -115, 35) }

\* sequences over S of length at most n
RECURSIVE SeqsUpTo(_, _)
SeqsUpTo(S, n) ==
    IF n = 0 THEN { <<>> }
    ELSE LET shorter == SeqsUpTo(S, n - 1)
         IN  shorter \cup { Append(s, x) : s \in { t \in shorter : Len(t) = n - 1 }, x \in S }

\* observations at the given points, with ids in list order
ObsAt(points) ==
    [i \in 1..Len(points) |-> Obs(i, i, points[i][1], points[i][2], 0, 0)]

FnIdle ==
    /\ fnObs = <<>>
    /\ fnBounds = Bnd(-120, 30, -110, 40)
    /\ fnStep = "idle"
    /\ fnFiltered = <<>>
    /\ fnClusters = <<>>

FnInit ==
    /\ fnObs \in { ObsAt(p) : p \in SeqsUpTo(FnPoints, MaxLen) }
    /\ fnBounds \in FnBounds
    /\ fnStep = "input"
    /\ fnFiltered = <<>>
    /\ fnClusters = <<>>

ApplyFilter ==
    /\ UNCHANGED << mapVars, formVars, pageVars, authVars >>
    /\ fnStep = "input"
    /\ fnFiltered' = filtered(fnObs, fnBounds)
    /\ fnStep' = "filtered"
    /\ UNCHANGED << fnObs, fnBounds, fnClusters >>

\* createClusters(filtered, boundsObj) as updateVisibleObservations calls it
ClusterFiltered ==
    /\ UNCHANGED << mapVars, formVars, pageVars, authVars >>
    /\ fnStep = "filtered"
    /\ fnClusters' = createClusters(fnFiltered, fnBounds, DefaultGridSize)
    /\ fnStep' = "clustered"
    /\ UNCHANGED << fnObs, fnBounds, fnFiltered >>

\* createClusters on an arbitrary list
ClusterAll ==
    /\ UNCHANGED << mapVars, formVars, pageVars, authVars >>
    /\ fnStep = "input"
    /\ fnClusters' = createClusters(fnObs, fnBounds, DefaultGridSize)
    /\ fnStep' = "clusteredAll"
    /\ UNCHANGED << fnObs, fnBounds, fnFiltered >>

FnNext == ApplyFilter \/ ClusterFiltered \/ ClusterAll

\* ------------------------------------------------------------------------
\* Creation form (CreateObservationForm): values and conversions
\* ------------------------------------------------------------------------
\* a number of degrees, held in tenths of a degree
Deg(d) == d * 10

\* the numbers the form meets, each with the text Number.prototype.toString
\* prints for it
Numerals ==
    { << Deg(37), "37" >>, << Deg(-122), "-122" >>, << Deg(48), "48" >>,
      << Deg(2), "2" >>, << Deg(40), "40" >>, << Deg(-100), "-100" >>,
      << Deg(12), "12" >>, << Deg(91), "91" >>, << Deg(-181), "-181" >>,
      << Deg(-90), "-90" >>, << Deg(180), "180" >>, << Deg(0), "0" >>,
      << Deg(90), "90" >>, << Deg(-180), "-180" >>,
      << 395, "39.5" >>, << -985, "-98.5" >> }

\* texts a number input accepts that no number prints as
OtherNumerals == { << Deg(37), "37.0" >> }

NaN == Null

toString(n) == (CHOOSE p \in Numerals : p[1] = n)[2]

\* parseFloat: the number held as << n >>, or NaN
parseFloat(s) ==
    IF \E p \in Numerals \cup OtherNumerals : p[2] = s
    THEN << (CHOOSE p \in Numerals \cup OtherNumerals : p[2] = s)[1] >>
    ELSE NaN

isNaN(x) == x = NaN

\* x || d for a number x
OrElse(x, d) == IF isNaN(x) \/ x[1] = 0 THEN d ELSE x[1]

\* String.prototype.trim on the captions the model types
trim(s) ==
    CASE s = "  " -> ""
      [] s = " hi " -> "hi"
      [] OTHER -> s

\* the useState initial values (the page passes no latitude/longitude props)
InitialForm ==
    [ caption |-> "", imageFiles |-> <<>>, lat |-> "", lng |-> "", error |-> "",
      loading |-> FALSE, showMap |-> FALSE, mapMarker |-> Null,
      extractingExif |-> FALSE ]

\* what exifr.parse settles with: no GPS tags, a thrown error, or the two tags
Exif(outcome, la, lo) == [ outcome |-> outcome, GPSLatitude |-> la, GPSLongitude |-> lo ]
ExifOutcomes ==
    { Exif("none", 0, 0), Exif("throws", 0, 0),
      Exif("gps", Deg(37), Deg(-122)), Exif("gps", Deg(48), Deg(2)),
      Exif("gps", 0, Deg(12)) }

\* the object extractGpsFromImage resolves with: {} is Null
extractGpsFromImage(exif) ==
    IF exif.outcome = "gps" /\ exif.GPSLatitude # 0 /\ exif.GPSLongitude # 0
    THEN << [ lat |-> exif.GPSLatitude, lng |-> exif.GPSLongitude ] >>
    ELSE Null

\* a selected file: an image of at most 10MB, a file of another type, or an
\* image above 10MB
FileKinds == { "image", "notImage", "tooLarge" }
\* the selections of the file input (e.target.files) made of files of kinds
FileLists(kinds) == UNION { [1..n -> kinds] : n \in 1..MaxBatch }

ClickPoints == { [ lat |-> Deg(40), lng |-> Deg(-100) ] }
\* what the viewer types: a latitude, or nothing left in either input
TypedLat == { "", "12" }
TypedLng == { "" }

\* the component's own state after construction
FormClosed ==
    /\ form = InitialForm
    /\ batch = Null
    /\ upload = Null
    /\ created = 0
    /\ revoked = <<>>
    /\ formGone = FALSE
    /\ adoptedFrom = 0
    /\ manualPick = FALSE
    /\ sent = 0

FormInit ==
    /\ FormClosed
    /\ token = << "token" >>

\* the form's controls are on screen
Rendered == ~formGone /\ token # Null

\* ------------------------------------------------------------------------
\* Creation form: staging images (handleFileChange, removeImage)
\* ------------------------------------------------------------------------
NoneHasGps(imgs) == \A i \in 1..Len(imgs) : ~imgs[i].hasGps

\* the end of handleFileChange with the GPS flags of the new images not read
endOfBatchIgnoresGps(f, b) ==
    [ f EXCEPT !.imageFiles = b.imageFiles \o b.newImageFiles,
               !.showMap = IF b.lat = "" /\ b.lng = "" THEN TRUE ELSE @,
               !.extractingExif = FALSE ]

\* the statements after the for loop; b holds the values the call closed over
endOfBatch(f, b) ==
    [ f EXCEPT !.imageFiles = b.imageFiles \o b.newImageFiles,
               !.showMap = IF b.lat = "" /\ b.lng = "" /\ NoneHasGps(b.newImageFiles)
                           THEN TRUE ELSE @,
               !.extractingExif = FALSE ]

\* a loop that a refused file ends (break in place of continue)
runLoopEndedByRefusal(f, b, n) ==
    IF b.queue = <<>>
    THEN [ form |-> endOfBatch(f, b), batch |-> Null, created |-> n ]
    ELSE LET file == Head(b.queue)
             rest == [ b EXCEPT !.queue = Tail(@) ]
         IN  IF file = "notImage"
             THEN [ form |-> endOfBatch([ f EXCEPT !.error = "is not a valid image file" ], b),
                    batch |-> Null, created |-> n ]
             ELSE IF file = "tooLarge"
             THEN [ form |-> endOfBatch([ f EXCEPT !.error =
                                            "is too large. Maximum size is 10MB" ], b),
                    batch |-> Null, created |-> n ]
             ELSE [ form |-> f,
                    batch |-> << [ rest EXCEPT !.preview = n + 1 ] >>,
                    created |-> n + 1 ]

\* the for loop from its next file up to the await of the next accepted file,
\* or through the end of the call; n object URLs exist
RECURSIVE runLoop(_, _, _)
runLoop(f, b, n) ==
    IF b.queue = <<>>
    THEN [ form |-> endOfBatch(f, b), batch |-> Null, created |-> n ]
    ELSE LET file == Head(b.queue)
             rest == [ b EXCEPT !.queue = Tail(@) ]
         IN  IF file = "notImage"
             THEN runLoop([ f EXCEPT !.error = "is not a valid image file" ], rest, n)
             ELSE IF file = "tooLarge"
             THEN runLoop([ f EXCEPT !.error = "is too large. Maximum size is 10MB" ],
                          rest, n)
             ELSE [ form |-> f,
                    batch |-> << [ rest EXCEPT !.preview = n + 1 ] >>,
                    created |-> n + 1 ]

Min(a, b) == IF a < b THEN a ELSE b

Accepted(files) == Cardinality({ i \in 1..Len(files) : files[i] = "image" })

\* the handler taking every selected file (no slice to the remaining slots)
handleFileChangeUnsliced(files, cap) ==
    /\ UNCHANGED << mapVars, fnVars, pageVars, authVars >>
    /\ Rendered
    /\ ~form.extractingExif /\ Len(form.imageFiles) < 5
    /\ LET r == runLoop([ form EXCEPT !.extractingExif = TRUE, !.error = "" ],
                        [ imageFiles |-> form.imageFiles, lat |-> form.lat,
                          lng |-> form.lng, filesToAdd |-> files,
                          queue |-> files, newImageFiles |-> <<>>,
                          preview |-> 0 ],
                        created)
       IN  /\ created + Accepted(files) <= cap
           /\ form' = r.form
           /\ batch' = r.batch
           /\ created' = r.created
           /\ revoked' = IF r.created > created THEN Append(revoked, 0) ELSE revoked
    /\ UNCHANGED << token, upload, formGone, adoptedFrom, manualPick, sent >>

\* onChange of the file input, up to the first await, while the calls of
\* URL.createObjectURL stay within cap
handleFileChangeWithin(files, cap) ==
    /\ UNCHANGED << mapVars, fnVars, pageVars, authVars >>
    /\ Rendered
    /\ ~form.extractingExif /\ Len(form.imageFiles) < 5
    /\ LET remainingSlots == 5 - Len(form.imageFiles)
           filesToAdd == SubSeq(files, 1, Min(Len(files), remainingSlots))
           r == runLoop([ form EXCEPT !.extractingExif = TRUE, !.error = "" ],
                        [ imageFiles |-> form.imageFiles, lat |-> form.lat,
                          lng |-> form.lng, filesToAdd |-> filesToAdd,
                          queue |-> filesToAdd, newImageFiles |-> <<>>,
                          preview |-> 0 ],
                        created)
       IN  /\ created + Accepted(filesToAdd) <= cap
           /\ form' = r.form
           /\ batch' = r.batch
           /\ created' = r.created
           /\ revoked' = IF r.created > created THEN Append(revoked, 0) ELSE revoked
    /\ UNCHANGED << token, upload, formGone, adoptedFrom, manualPick, sent >>

handleFileChange(files) == handleFileChangeWithin(files, MaxPreviews)

\* the adoption test reading the form's coordinates as they are now
adoptsWhenFormEmpty(hasGps, b, f) == hasGps /\ f.lat = "" /\ f.lng = ""

\* if (hasGps && !lat && !lng), lat and lng being those the call closed over
adopts(hasGps, b, f) == hasGps /\ b.lat = "" /\ b.lng = ""

\* a failed extraction reaching the catch of handleFileChange: the batch ends
\* with a message and stages nothing
exifParsedAborts(exif) ==
    /\ UNCHANGED << mapVars, fnVars, pageVars, authVars >>
    /\ batch # Null
    /\ LET b == batch[1]
           gps == extractGpsFromImage(exif)
           hasGps == gps # Null
           img == [ preview |-> b.preview, hasGps |-> hasGps, gps |-> gps ]
           adopt == hasGps /\ b.lat = "" /\ b.lng = ""
           f1 == IF adopt
                 THEN [ form EXCEPT !.lat = toString(gps[1].lat),
                                    !.lng = toString(gps[1].lng),
                                    !.showMap = FALSE ]
                 ELSE form
           r == IF exif.outcome = "throws"
                THEN [ form |-> [ form EXCEPT !.error = "Error processing images",
                                              !.extractingExif = FALSE ],
                       batch |-> Null, created |-> created ]
                ELSE runLoop(f1, [ b EXCEPT !.newImageFiles = Append(@, img) ], created)
       IN  /\ form' = IF formGone THEN form ELSE r.form
           /\ batch' = r.batch
           /\ created' = r.created
           /\ revoked' = IF r.created > created THEN Append(revoked, 0) ELSE revoked
           /\ adoptedFrom' = IF adopt /\ ~formGone THEN b.preview ELSE adoptedFrom
           /\ manualPick' = IF adopt /\ ~formGone THEN FALSE ELSE manualPick
    /\ UNCHANGED << token, upload, formGone, sent >>

\* exifr.parse settles for the file awaited: the rest of the loop body, then
\* the loop up to the next await or the end of the call
exifParsed(exif) ==
    /\ UNCHANGED << mapVars, fnVars, pageVars, authVars >>
    /\ batch # Null
    /\ LET b == batch[1]
           gps == extractGpsFromImage(exif)
           hasGps == gps # Null
           img == [ preview |-> b.preview, hasGps |-> hasGps, gps |-> gps ]
           adopt == adopts(hasGps, b, form)
           f1 == IF adopt
                 THEN [ form EXCEPT !.lat = toString(gps[1].lat),
                                    !.lng = toString(gps[1].lng),
                                    !.showMap = FALSE ]
                 ELSE form
           r == runLoop(f1, [ b EXCEPT !.newImageFiles = Append(@, img) ], created)
       IN  /\ form' = IF formGone THEN form ELSE r.form
           /\ batch' = r.batch
           /\ created' = r.created
           /\ revoked' = IF r.created > created THEN Append(revoked, 0) ELSE revoked
           /\ adoptedFrom' = IF adopt /\ ~formGone THEN b.preview ELSE adoptedFrom
           /\ manualPick' = IF adopt /\ ~formGone THEN FALSE ELSE manualPick
    /\ UNCHANGED << token, upload, formGone, sent >>

Without(imgs, index) ==
    SubSeq(imgs, 1, index - 1) \o SubSeq(imgs, index + 1, Len(imgs))

\* the test of removeImage without the manual marker
clearsOnRemoveIgnoringMarker(f, index) ==
    /\ f.imageFiles[index].hasGps
    /\ NoneHasGps(Without(f.imageFiles, index))

\* imageToRemove.hasGps && newFiles.every(img => !img.hasGps) && !mapMarker
clearsOnRemove(f, index) ==
    /\ f.imageFiles[index].hasGps
    /\ NoneHasGps(Without(f.imageFiles, index))
    /\ f.mapMarker = Null

\* onClick of the Remove button of the index-th preview
removeImage(index) ==
    /\ UNCHANGED << mapVars, fnVars, pageVars, authVars >>
    /\ Rendered
    /\ index \in 1..Len(form.imageFiles)
    /\ revoked' = [ revoked EXCEPT ![form.imageFiles[index].preview] = @ + 1 ]
    /\ LET clear == clearsOnRemove(form, index)
           f1 == [ form EXCEPT !.imageFiles = Without(@, index) ]
       IN  /\ form' = IF clear
                      THEN [ f1 EXCEPT !.showMap = TRUE, !.lat = "", !.lng = "" ]
                      ELSE f1
           /\ adoptedFrom' = IF clear THEN 0 ELSE adoptedFrom
           /\ manualPick' = IF clear THEN FALSE ELSE manualPick
    /\ UNCHANGED << token, batch, upload, created, formGone, sent >>

\* ------------------------------------------------------------------------
\* Creation form: choosing the location by hand
\* ------------------------------------------------------------------------
\* a click handler that leaves the picker open
afterMapClickKeepsPicker(f, pt) ==
    [ f EXCEPT !.lng = toString(pt.lng), !.lat = toString(pt.lat),
               !.mapMarker = << pt >> ]

\* the state handleMapClick sets (the picker's camera is not modelled)
afterMapClick(f, pt) ==
    [ f EXCEPT !.lng = toString(pt.lng), !.lat = toString(pt.lat),
               !.mapMarker = << pt >>, !.showMap = FALSE ]

\* onClick of the picker map, which is on screen while showMap
handleMapClick(pt) ==
    /\ UNCHANGED << mapVars, fnVars, pageVars, authVars >>
    /\ Rendered
    /\ form.showMap
    /\ form' = afterMapClick(form, pt)
    /\ adoptedFrom' = 0
    /\ manualPick' = TRUE
    /\ UNCHANGED << token, batch, upload, created, revoked, formGone, sent >>

\* onClick of "Select on map", on screen while the picker is hidden
selectOnMap ==
    /\ UNCHANGED << mapVars, fnVars, pageVars, authVars >>
    /\ Rendered
    /\ ~form.showMap
    /\ LET currentLat == OrElse(parseFloat(form.lat), 395)
           currentLng == OrElse(parseFloat(form.lng), -985)
       IN  form' = [ form EXCEPT
                       !.mapMarker = IF currentLat # 395 \/ currentLng # -985
                                     THEN << [ lat |-> currentLat, lng |-> currentLng ] >>
                                     ELSE @,
                       !.showMap = TRUE ]
    /\ UNCHANGED << token, batch, upload, created, revoked, formGone,
                    adoptedFrom, manualPick, sent >>

\* onChange of the latitude input
typeLat(s) ==
    /\ UNCHANGED << mapVars, fnVars, pageVars, authVars >>
    /\ Rendered
    /\ s # form.lat
    /\ form' = [ form EXCEPT !.lat = s ]
    /\ adoptedFrom' = 0
    /\ manualPick' = FALSE
    /\ UNCHANGED << token, batch, upload, created, revoked, formGone, sent >>

\* onChange of the longitude input
typeLng(s) ==
    /\ UNCHANGED << mapVars, fnVars, pageVars, authVars >>
    /\ Rendered
    /\ s # form.lng
    /\ form' = [ form EXCEPT !.lng = s ]
    /\ adoptedFrom' = 0
    /\ manualPick' = FALSE
    /\ UNCHANGED << token, batch, upload, created, revoked, formGone, sent >>

\* onClick of Cancel: the page's onCancel unmounts the form
onCancel ==
    /\ UNCHANGED << mapVars, fnVars, pageVars, authVars >>
    /\ Rendered
    /\ formGone' = TRUE
    /\ UNCHANGED << form, token, batch, upload, created, revoked,
                    adoptedFrom, manualPick, sent >>

FormNext ==
    \/ \E files \in FileLists({ "image" }) : handleFileChange(files)
    \/ \E exif \in ExifOutcomes : exifParsed(exif)
    \/ \E index \in 1..MaxPreviews : removeImage(index)
    \/ \E pt \in ClickPoints : handleMapClick(pt)
    \/ selectOnMap
    \/ \E s \in TypedLat : typeLat(s)
    \/ \E s \in TypedLng : typeLng(s)
    \/ onCancel

\* ------------------------------------------------------------------------
\* Creation form: submitting (handleSubmit)
\* ------------------------------------------------------------------------
\* the checks with the caption tested as typed
firstFailureUntrimmed(f, tok) ==
    LET latNum == parseFloat(f.lat)
        lngNum == parseFloat(f.lng)
    IN  IF tok = Null
        THEN "You must be logged in to create an observation"
        ELSE IF f.caption = ""
        THEN "Caption is required"
        ELSE IF Len(f.imageFiles) = 0
        THEN "At least one image is required"
        ELSE IF Len(f.imageFiles) > 5
        THEN "Maximum 5 images allowed"
        ELSE IF isNaN(latNum) \/ isNaN(lngNum)
        THEN "Valid latitude and longitude are required"
        ELSE IF latNum[1] < Deg(-90) \/ latNum[1] > Deg(90)
        THEN "Latitude must be between -90 and 90"
        ELSE IF lngNum[1] < Deg(-180) \/ lngNum[1] > Deg(180)
        THEN "Longitude must be between -180 and 180"
        ELSE ""

\* the checks with the coordinates examined before the caption and the images
firstFailureCoordinatesFirst(f, tok) ==
    LET latNum == parseFloat(f.lat)
        lngNum == parseFloat(f.lng)
    IN  IF tok = Null
        THEN "You must be logged in to create an observation"
        ELSE IF isNaN(latNum) \/ isNaN(lngNum)
        THEN "Valid latitude and longitude are required"
        ELSE IF latNum[1] < Deg(-90) \/ latNum[1] > Deg(90)
        THEN "Latitude must be between -90 and 90"
        ELSE IF lngNum[1] < Deg(-180) \/ lngNum[1] > Deg(180)
        THEN "Longitude must be between -180 and 180"
        ELSE IF trim(f.caption) = ""
        THEN "Caption is required"
        ELSE IF Len(f.imageFiles) = 0
        THEN "At least one image is required"
        ELSE IF Len(f.imageFiles) > 5
        THEN "Maximum 5 images allowed"
        ELSE ""

\* the checks with the ends of the two ranges refused
firstFailureOpenRanges(f, tok) ==
    LET latNum == parseFloat(f.lat)
        lngNum == parseFloat(f.lng)
    IN  IF tok = Null
        THEN "You must be logged in to create an observation"
        ELSE IF trim(f.caption) = ""
        THEN "Caption is required"
        ELSE IF Len(f.imageFiles) = 0
        THEN "At least one image is required"
        ELSE IF Len(f.imageFiles) > 5
        THEN "Maximum 5 images allowed"
        ELSE IF isNaN(latNum) \/ isNaN(lngNum)
        THEN "Valid latitude and longitude are required"
        ELSE IF latNum[1] <= Deg(-90) \/ latNum[1] >= Deg(90)
        THEN "Latitude must be between -90 and 90"
        ELSE IF lngNum[1] <= Deg(-180) \/ lngNum[1] >= Deg(180)
        THEN "Longitude must be between -180 and 180"
        ELSE ""

\* the message of the first check of handleSubmit that fails, "" when none does
firstFailure(f, tok) ==
    LET latNum == parseFloat(f.lat)
        lngNum == parseFloat(f.lng)
    IN  IF tok = Null
        THEN "You must be logged in to create an observation"
        ELSE IF trim(f.caption) = ""
        THEN "Caption is required"
        ELSE IF Len(f.imageFiles) = 0
        THEN "At least one image is required"
        ELSE IF Len(f.imageFiles) > 5
        THEN "Maximum 5 images allowed"
        ELSE IF isNaN(latNum) \/ isNaN(lngNum)
        THEN "Valid latitude and longitude are required"
        ELSE IF latNum[1] < Deg(-90) \/ latNum[1] > Deg(90)
        THEN "Latitude must be between -90 and 90"
        ELSE IF lngNum[1] < Deg(-180) \/ lngNum[1] > Deg(180)
        THEN "Longitude must be between -180 and 180"
        ELSE ""

\* the multipart body and the Authorization header of the POST
createRequest(f, tok) ==
    [ caption |-> trim(f.caption),
      latitude |-> toString(parseFloat(f.lat)[1]),
      longitude |-> toString(parseFloat(f.lng)[1]),
      images |-> [ i \in 1..Len(f.imageFiles) |-> f.imageFiles[i].preview ],
      bearer |-> tok[1] ]

\* onSubmit of the form, up to the await of fetch; the submit button is
\* disabled while loading or extractingExif
handleSubmit ==
    /\ UNCHANGED << mapVars, fnVars, pageVars, authVars >>
    /\ Rendered
    /\ ~form.loading /\ ~form.extractingExif
    /\ sent < MaxSubmits
    /\ LET failure == firstFailure(form, token)
       IN  IF failure # ""
           THEN /\ form' = [ form EXCEPT !.error = failure ]
                /\ UNCHANGED << upload, sent >>
           ELSE /\ form' = [ form EXCEPT !.error = "", !.loading = TRUE ]
                /\ upload' = << [ imageFiles |-> form.imageFiles,
                                  request |-> createRequest(form, token) ] >>
                /\ sent' = sent + 1
    /\ UNCHANGED << token, batch, created, revoked, formGone, adoptedFrom, manualPick >>

\* imageFiles.forEach(img => URL.revokeObjectURL(img.preview))
RevokeAll(imgs) ==
    [ p \in 1..Len(revoked) |->
        revoked[p] + Cardinality({ i \in 1..Len(imgs) : imgs[i].preview = p }) ]

\* the response is ok: previews released, form reset, the page's onSuccess
\* unmounts the form
createOk ==
    /\ UNCHANGED << mapVars, fnVars, pageVars, authVars >>
    /\ upload # Null
    /\ upload' = Null
    /\ revoked' = RevokeAll(upload[1].imageFiles)
    /\ form' = IF formGone THEN form
               ELSE [ form EXCEPT !.caption = "", !.imageFiles = <<>>, !.lat = "",
                                  !.lng = "", !.mapMarker = Null, !.showMap = FALSE,
                                  !.loading = FALSE ]
    /\ formGone' = TRUE
    /\ adoptedFrom' = IF formGone THEN adoptedFrom ELSE 0
    /\ manualPick' = IF formGone THEN manualPick ELSE FALSE
    /\ UNCHANGED << token, batch, created, sent >>

\* the detail of an error body; Null when the body is not JSON
ErrorDetails == { Null, << "" >>, << "Invalid image" >> }

\* a refusal shown with the fixed message whatever the body says
createRejectedFixedMessage(detail) ==
    /\ UNCHANGED << mapVars, fnVars, pageVars, authVars >>
    /\ upload # Null
    /\ upload' = Null
    /\ form' = IF formGone THEN form
               ELSE [ form EXCEPT !.error = "Failed to create observation",
                                  !.loading = FALSE ]
    /\ UNCHANGED << token, batch, created, revoked, formGone, adoptedFrom,
                    manualPick, sent >>

\* the response is not ok: the thrown message is caught into error
createRejected(detail) ==
    /\ UNCHANGED << mapVars, fnVars, pageVars, authVars >>
    /\ upload # Null
    /\ upload' = Null
    /\ form' = IF formGone THEN form
               ELSE [ form EXCEPT
                        !.error = IF detail = Null \/ detail = << "" >>
                                  THEN "Failed to create observation"
                                  ELSE detail[1],
                        !.loading = FALSE ]
    /\ UNCHANGED << token, batch, created, revoked, formGone, adoptedFrom,
                    manualPick, sent >>

\* fetch rejects: its message is caught into error
createNetworkError ==
    /\ UNCHANGED << mapVars, fnVars, pageVars, authVars >>
    /\ upload # Null
    /\ upload' = Null
    /\ form' = IF formGone THEN form
               ELSE [ form EXCEPT !.error = "Failed to fetch", !.loading = FALSE ]
    /\ UNCHANGED << token, batch, created, revoked, formGone, adoptedFrom,
                    manualPick, sent >>

\* onChange of the caption textarea
setCaption(s) ==
    /\ UNCHANGED << mapVars, fnVars, pageVars, authVars >>
    /\ Rendered
    /\ s # form.caption
    /\ form' = [ form EXCEPT !.caption = s ]
    /\ UNCHANGED << token, batch, upload, created, revoked, formGone,
                    adoptedFrom, manualPick, sent >>

Captions == { "", "  ", " hi " }
SubmitLat == { "", "91", "37.0" }
SubmitLng == { "", "-181", "-122" }
\* one image picked at a time, each without GPS tags
OneImage == { << "image" >> }
PlainFile == { Exif("none", 0, 0) }

SubmitNext ==
    \/ \E s \in Captions : setCaption(s)
    \/ \E s \in SubmitLat : typeLat(s)
    \/ \E s \in SubmitLng : typeLng(s)
    \/ \E files \in OneImage : handleFileChange(files)
    \/ \E exif \in PlainFile : exifParsed(exif)
    \/ \E index \in 1..MaxPreviews : removeImage(index)
    \/ handleSubmit
    \/ createOk
    \/ \E detail \in ErrorDetails : createRejected(detail)
    \/ createNetworkError
    \/ onCancel

\* s repeated n times
RECURSIVE Repeat(_, _)
Repeat(s, n) ==
    IF n = 0 THEN ""
    ELSE IF n % 2 = 0 THEN LET h == Repeat(s, n \div 2) IN h \o h
    ELSE s \o Repeat(s, n - 1)

\* a caption of 501 characters
LongCaption == Repeat("x", 501)

\* submissions at the ends of the ranges and with a long caption
EdgeCaptions == { " hi ", LongCaption }
EdgeLat == { "-90", "90" }
EdgeLng == { "-180", "180" }

EdgeNext ==
    \/ \E s \in EdgeCaptions : setCaption(s)
    \/ \E s \in EdgeLat : typeLat(s)
    \/ \E s \in EdgeLng : typeLng(s)
    \/ \E files \in FileLists({ "image" }) : handleFileChange(files)
    \/ \E exif \in PlainFile : exifParsed(exif)
    \/ \E index \in 1..MaxPreviews : removeImage(index)
    \/ handleSubmit
    \/ createOk
    \/ \E detail \in ErrorDetails : createRejected(detail)
    \/ createNetworkError

\* staging with files that are refused and extractions that fail
StageExif ==
    { Exif("none", 0, 0), Exif("throws", 0, 0),
      Exif("gps", Deg(37), Deg(-122)), Exif("gps", Deg(40), Deg(-100)) }

StageNext ==
    \/ \E files \in FileLists(FileKinds) : handleFileChange(files)
    \/ \E exif \in StageExif : exifParsed(exif)
    \/ \E index \in 1..MaxPreviews : removeImage(index)
    \/ onCancel

\* staging plain images up to the limit of 5 and beyond
CapPreviews == 4 + MaxPreviews

CapNext ==
    \/ \E files \in FileLists({ "image" }) : handleFileChangeWithin(files, CapPreviews)
    \/ \E exif \in PlainFile : exifParsed(exif)
    \/ \E index \in 1..5 : removeImage(index)

\* the map as the page first shows it to an anonymous viewer
\* ------------------------------------------------------------------------
\* The page: the observation list and its fetch (Home, fetchObservations)
\* ------------------------------------------------------------------------
MaxFetches == 3

\* an entry of a list the page holds: created_at and dateposted are Null or
\* << text >>
Row(id, created_at, dateposted) ==
    [id |-> id, created_at |-> created_at, dateposted |-> dateposted]

\* the ten placeholder observations, each with its dateposted
MOCK_OBSERVATIONS == [i \in 1..10 |-> Row(i, Null, << "2024-01" >>)]

\* JSON arrays the backend answers with
ServerRows ==
    { <<>>,
      << Row(4, << "2025-04" >>, << "2025-05" >>) >>,
      << Row(1, << "2025-02" >>, Null), Row(2, Null, << "2025-03" >>), Row(3, Null, Null) >> }

\* obs.created_at || obs.dateposted || new Date().toISOString()
datepostedOf(obs) ==
    IF obs.created_at # Null THEN obs.created_at
    ELSE IF obs.dateposted # Null THEN obs.dateposted
    ELSE << "now" >>

\* data.map(obs => ({ ...obs, dateposted: ... }))
mappedRows(data) == [i \in 1..Len(data) |-> [data[i] EXCEPT !.dateposted = datepostedOf(data[i])]]

\* messages of the errors that reach the catch of fetchObservations
FetchErrors ==
    { "Failed to fetch",                       \* TypeError of a rejected fetch
      "API returned 500: Internal Server Error",
      "API returned 404: Not Found",
      "Unexpected token < in JSON",            \* response.json() rejects
      "data.map is not a function" }           \* a JSON body that is no array

\* after useState and the mount effect: the first fetch is in flight
PageInit ==
    /\ allObservations = MOCK_OBSERVATIONS
    /\ loading = TRUE
    /\ error = Null
    /\ showCreateForm = FALSE
    /\ fetches = { 1 }
    /\ fetched = 1

\* the page at rest with a fetched list
PageIdle ==
    /\ allObservations = <<>>
    /\ loading = FALSE
    /\ error = Null
    /\ showCreateForm = FALSE
    /\ fetches = {}
    /\ fetched = 1

\* the .then chain of a 2xx response whose body is the array data
fetchSucceeded(n, data) ==
    /\ UNCHANGED << mapVars, fnVars, formVars, authVars >>
    /\ n \in fetches
    /\ fetches' = fetches \ { n }
    /\ allObservations' = mappedRows(data)
    /\ loading' = FALSE
    /\ error' = Null
    /\ UNCHANGED << showCreateForm, fetched >>

\* a catch that leaves the loading flag as it is
fetchFailedKeepsLoading(n, message) ==
    /\ UNCHANGED << mapVars, fnVars, formVars, authVars >>
    /\ n \in fetches
    /\ fetches' = fetches \ { n }
    /\ error' = IF message = "Failed to fetch"
                THEN << "Backend server not available - using mock data" >>
                ELSE << "Failed to fetch observations: " \o message >>
    /\ allObservations' = MOCK_OBSERVATIONS
    /\ UNCHANGED << loading, showCreateForm, fetched >>

\* the .catch: the fetch rejected, the status was not 2xx, or the body was
\* no JSON array; message is err.message
fetchFailed(n, message) ==
    /\ UNCHANGED << mapVars, fnVars, formVars, authVars >>
    /\ n \in fetches
    /\ fetches' = fetches \ { n }
    /\ error' = IF message = "Failed to fetch"
                THEN << "Backend server not available - using mock data" >>
                ELSE << "Failed to fetch observations: " \o message >>
    /\ allObservations' = MOCK_OBSERVATIONS
    /\ loading' = FALSE
    /\ UNCHANGED << showCreateForm, fetched >>

\* "Create Observation": setShowCreateForm(true); the button is rendered once
\* loading has ended
openCreateForm ==
    /\ UNCHANGED << mapVars, fnVars, formVars, authVars >>
    /\ ~loading /\ ~showCreateForm
    /\ showCreateForm' = TRUE
    /\ UNCHANGED << allObservations, loading, error, fetches, fetched >>

\* the form's onCancel prop: setShowCreateForm(false)
closeCreateForm ==
    /\ UNCHANGED << mapVars, fnVars, formVars, authVars >>
    /\ showCreateForm
    /\ showCreateForm' = FALSE
    /\ UNCHANGED << allObservations, loading, error, fetches, fetched >>

\* the form's onSuccess prop: setShowCreateForm(false); fetchObservations()
onSuccess ==
    /\ UNCHANGED << mapVars, fnVars, formVars, authVars >>
    /\ showCreateForm
    /\ fetched < MaxFetches
    /\ showCreateForm' = FALSE
    /\ fetches' = fetches \cup { fetched + 1 }
    /\ fetched' = fetched + 1
    /\ UNCHANGED << allObservations, loading, error >>

\* the promise chain of a fetch settles
FetchSettles ==
    \E n \in fetches :
        \/ \E data \in ServerRows : fetchSucceeded(n, data)
        \/ \E message \in FetchErrors : fetchFailed(n, message)

PageNext ==
    \/ \E n \in 1..MaxFetches, data \in ServerRows : fetchSucceeded(n, data)
    \/ \E n \in 1..MaxFetches, message \in FetchErrors : fetchFailed(n, message)
    \/ openCreateForm
    \/ closeCreateForm
    \/ onSuccess

\* ------------------------------------------------------------------------
\* The session (AuthProvider): token, user and their stored copies
\* ------------------------------------------------------------------------
MaxLogins == 2
MaxReloads == 1

UserOf(id, username) == [id |-> id, username |-> username]

\* the user GET /auth/me answers with
ServerUser == UserOf(1, "ann")
Usernames == { "ann" }

\* the user objects the provider meets, each with its JSON text
JSONTable ==
    { << UserOf(1, "ann"), "{\"id\":1,\"username\":\"ann\"}" >>,
      << UserOf(0, "ann"), "{\"id\":0,\"username\":\"ann\"}" >> }

\* JSON.stringify and JSON.parse
stringify(u) == (CHOOSE p \in JSONTable : p[1] = u)[2]
parse(text) == (CHOOSE p \in JSONTable : p[2] = text)[1]

\* data.access_token of the n-th accepted login
AccessTokens == << "jwt1", "jwt2", "jwt3", "jwt4" >>

Storage(auth_token, auth_user) == [auth_token |-> auth_token, auth_user |-> auth_user]
EmptyStorage == Storage(Null, Null)
\* what an earlier visit that ended logged in has left
KeptStorage == Storage(<< "token" >>, << stringify(ServerUser) >>)

\* isAuthenticated: !!token
isAuthenticated == token # Null /\ token # << "" >>

\* loadAuth from its start to its await, or through its end, over storage s
mountLoad(s) ==
    IF s.auth_token # Null /\ s.auth_token # << "" >>
       /\ s.auth_user # Null /\ s.auth_user # << "" >>
    THEN [ token |-> s.auth_token, user |-> << parse(s.auth_user[1]) >>,
           verifying |-> << [storedToken |-> s.auth_token[1]] >>, loading |-> TRUE ]
    ELSE [ token |-> Null, user |-> Null, verifying |-> Null, loading |-> FALSE ]

\* after useState and the synchronous part of the mount effect
AuthInit ==
    /\ localStorage \in { EmptyStorage, KeptStorage }
    /\ token = mountLoad(localStorage).token
    /\ authUser = mountLoad(localStorage).user
    /\ verifying = mountLoad(localStorage).verifying
    /\ authLoading = mountLoad(localStorage).loading
    /\ logins = {}
    /\ loginCount = 0
    /\ rejected = {}
    /\ reloads = 0
    /\ loggedOut = FALSE

\* a verified session at rest
AuthIdle ==
    /\ localStorage = KeptStorage
    /\ authUser = << ServerUser >>
    /\ authLoading = FALSE
    /\ verifying = Null
    /\ logins = {}
    /\ loginCount = 0
    /\ rejected = {}
    /\ reloads = 0
    /\ loggedOut = FALSE

\* the state of the form component, which the provider does not touch
formOwn == << form, batch, upload, created, revoked, formGone, adoptedFrom,
              manualPick, sent >>

\* loadAuth: /auth/me answered 2xx with the user
verifyOk ==
    /\ UNCHANGED << mapVars, fnVars, pageVars, formOwn >>
    /\ verifying # Null
    /\ verifying' = Null
    /\ authUser' = << ServerUser >>
    /\ localStorage' = [ localStorage EXCEPT !.auth_user = << stringify(ServerUser) >> ]
    /\ authLoading' = FALSE
    /\ UNCHANGED << token, logins, loginCount, rejected, reloads, loggedOut >>

\* loadAuth: /auth/me answered with a non-2xx status
verifyNotOk ==
    /\ UNCHANGED << mapVars, fnVars, pageVars, formOwn >>
    /\ verifying # Null
    /\ verifying' = Null
    /\ localStorage' = EmptyStorage
    /\ token' = Null
    /\ authUser' = Null
    /\ authLoading' = FALSE
    /\ UNCHANGED << logins, loginCount, rejected, reloads, loggedOut >>

\* loadAuth: the fetch of /auth/me rejected; the catch only warns
verifyNetworkError ==
    /\ UNCHANGED << mapVars, fnVars, pageVars, formOwn >>
    /\ verifying # Null
    /\ verifying' = Null
    /\ authLoading' = FALSE
    /\ UNCHANGED << token, authUser, localStorage, logins, loginCount, rejected, reloads,
                    loggedOut >>

\* login(username, password) up to its first await
login(username) ==
    /\ UNCHANGED << mapVars, fnVars, pageVars, formOwn >>
    /\ loginCount < MaxLogins
    /\ loginCount' = loginCount + 1
    /\ logins' = logins \cup { [n |-> loginCount + 1, username |-> username,
                                 stage |-> "login", accessToken |-> ""] }
    /\ loggedOut' = FALSE
    /\ UNCHANGED << token, authUser, authLoading, localStorage, verifying, rejected, reloads >>

\* login: POST /auth/login answered with a non-2xx status, or the fetch
\* rejected: the call throws
loginRejected(l) ==
    /\ UNCHANGED << mapVars, fnVars, pageVars, formOwn >>
    /\ l \in logins /\ l.stage = "login"
    /\ logins' = logins \ { l }
    /\ rejected' = rejected \cup { l.n }
    /\ UNCHANGED << token, authUser, authLoading, localStorage, verifying, loginCount,
                    reloads, loggedOut >>

\* login: POST /auth/login answered 2xx; up to the await of /auth/me
loginAccepted(l) ==
    /\ UNCHANGED << mapVars, fnVars, pageVars, formOwn >>
    /\ l \in logins /\ l.stage = "login"
    /\ token' = << AccessTokens[l.n] >>
    /\ localStorage' = [ localStorage EXCEPT !.auth_token = << AccessTokens[l.n] >> ]
    /\ logins' = (logins \ { l })
                    \cup { [ l EXCEPT !.stage = "me", !.accessToken = AccessTokens[l.n] ] }
    /\ UNCHANGED << authUser, authLoading, verifying, loginCount, rejected, reloads,
                    loggedOut >>

\* login: /auth/me answered 2xx with the user
meOk(l) ==
    /\ UNCHANGED << mapVars, fnVars, pageVars, formOwn >>
    /\ l \in logins /\ l.stage = "me"
    /\ authUser' = << ServerUser >>
    /\ localStorage' = [ localStorage EXCEPT !.auth_user = << stringify(ServerUser) >> ]
    /\ logins' = logins \ { l }
    /\ UNCHANGED << token, authLoading, verifying, loginCount, rejected, reloads,
                    loggedOut >>

\* login: /auth/me answered with a non-2xx status; the user is made up from
\* the username
meNotOk(l) ==
    /\ UNCHANGED << mapVars, fnVars, pageVars, formOwn >>
    /\ l \in logins /\ l.stage = "me"
    /\ authUser' = << UserOf(0, l.username) >>
    /\ localStorage' = [ localStorage EXCEPT
                           !.auth_user = << stringify(UserOf(0, l.username)) >> ]
    /\ logins' = logins \ { l }
    /\ UNCHANGED << token, authLoading, verifying, loginCount, rejected, reloads,
                    loggedOut >>

\* login: the fetch of /auth/me rejected: the call throws with the token set
meThrows(l) ==
    /\ UNCHANGED << mapVars, fnVars, pageVars, formOwn >>
    /\ l \in logins /\ l.stage = "me"
    /\ logins' = logins \ { l }
    /\ rejected' = rejected \cup { l.n }
    /\ UNCHANGED << token, authUser, authLoading, localStorage, verifying, loginCount,
                    reloads, loggedOut >>

\* logout()
logout ==
    /\ UNCHANGED << mapVars, fnVars, pageVars, formOwn >>
    /\ token' = Null
    /\ authUser' = Null
    /\ localStorage' = EmptyStorage
    /\ loggedOut' = TRUE
    /\ UNCHANGED << authLoading, verifying, logins, loginCount, rejected, reloads >>

\* the browser loads the page again: the provider is constructed anew over
\* the storage as it is, and the calls of the page before are gone
Reload ==
    /\ UNCHANGED << mapVars, fnVars, pageVars, formOwn >>
    /\ reloads < MaxReloads
    /\ reloads' = reloads + 1
    /\ token' = mountLoad(localStorage).token
    /\ authUser' = mountLoad(localStorage).user
    /\ verifying' = mountLoad(localStorage).verifying
    /\ authLoading' = mountLoad(localStorage).loading
    /\ logins' = {}
    /\ rejected' = {}
    /\ UNCHANGED << localStorage, loginCount, loggedOut >>

AuthNext ==
    \/ verifyOk
    \/ verifyNotOk
    \/ verifyNetworkError
    \/ \E username \in Usernames : login(username)
    \/ \E l \in logins : loginRejected(l)
    \/ \E l \in logins : loginAccepted(l)
    \/ \E l \in logins : meOk(l)
    \/ \E l \in logins : meNotOk(l)
    \/ \E l \in logins : meThrows(l)
    \/ logout
    \/ Reload

MapIdle == MapInit /\ currentUserId = Undefined

\* ------------------------------------------------------------------------
\* Specifications
\* ------------------------------------------------------------------------
Init == MapInit /\ FnIdle /\ FormInit /\ PageIdle /\ AuthIdle
Next == MapNext
Spec == Init /\ [][Next]_vars

InitFn == MapInit /\ FnInit /\ FormInit /\ PageIdle /\ AuthIdle
NextFn == FnNext
SpecFn == InitFn /\ [][NextFn]_vars

InitForm == MapIdle /\ FnIdle /\ FormInit /\ PageIdle /\ AuthIdle
NextForm == FormNext
SpecForm == InitForm /\ [][NextForm]_vars

NextSubmit == SubmitNext
SpecSubmit == InitForm /\ [][NextSubmit]_vars

NextStage == StageNext
SpecStage == InitForm /\ [][NextStage]_vars

NextCap == CapNext
SpecCap == InitForm /\ [][NextCap]_vars

NextEdge == EdgeNext
SpecEdge == InitForm /\ [][NextEdge]_vars

\* every fetch settles: the response arrives or the browser gives the
\* connection up
InitPage == MapIdle /\ FnIdle /\ FormInit /\ PageInit /\ AuthIdle
NextPage == PageNext
SpecPage == InitPage /\ [][NextPage]_vars /\ WF_vars(FetchSettles)

InitAuth == MapIdle /\ FnIdle /\ FormClosed /\ PageIdle /\ AuthInit
NextAuth == AuthNext
SpecAuth == InitAuth /\ [][NextAuth]_vars

\* the settling timer fires once its 100ms have passed
NextProps == PropsNext
SpecProps == InitForm /\ [][NextProps]_vars /\ WF_vars(SettleTimer)

\* ------------------------------------------------------------------------
\* Properties of the view-count synchronizer
\* ------------------------------------------------------------------------
\* C1: a selection of a marker by a known viewer who is not the owner causes
\* at most one increment-view request; after the success response has been
\* merged no further request is issued until the next selection.
C1_OneRequestPerSelection == sinceSelect <= 1

\* C2: a late success response for an observation other than the selected
\* one never overwrites the selection.
C2_LateResponseKeepsSelection ==
    [][ \A req \in pending :
            ( /\ ResponseSuccess(req)
              /\ selectedObs # Null
              /\ selectedObs[1].id # req.id )
            => selectedObs' = selectedObs ]_vars

\* C3: a failed increment request (network error or non-success status)
\* leaves the selection and every entry of the individual list as they were.
C3_FailureLeavesStateUnchanged ==
    [][ \A req \in pending :
            ( \/ ResponseNetworkError(req)
              \/ ResponseErrorNotJson(req)
              \/ ResponseErrorJson(req) )
            => ( selectedObs' = selectedObs /\ observations' = observations ) ]_vars

\* C4: for every observation id, the views held locally (in the individual
\* list and in the selection) never decrease from one state to the next.
C4_ViewsNeverDecrease ==
    [][ /\ \A i \in 1..Len(observations), j \in 1..Len(observations') :
              observations[i].id = observations'[j].id
              => observations'[j].views >= observations[i].views
        /\ ( /\ selectedObs # Null
             /\ selectedObs' # Null
             /\ selectedObs[1].id = selectedObs'[1].id )
           => selectedObs'[1].views >= selectedObs[1].views ]_vars

\* C5: a success response for observation X keeps the length and order of
\* the individual list, makes the entry with id X the returned representation
\* (its views are the returned views) and leaves every other entry as it was.
C5_MergeReplacesOnlyMatchingEntry ==
    [][ \A req \in pending :
            ResponseSuccess(req)
            => /\ Len(observations') = Len(observations)
               /\ \A i \in 1..Len(observations) :
                     IF observations[i].id = req.id
                     THEN /\ observations'[i].id = req.data.id
                          /\ observations'[i].views = req.data.views
                          /\ observations'[i].user_id = req.data.user_id
                          /\ observations'[i].longitude = req.data.longitude
                          /\ observations'[i].latitude = req.data.latitude
                     ELSE observations'[i] = observations[i] ]_vars

\* a response has been merged into a list that also holds another entry
C5_Witness ==
    \E i, j \in 1..Len(observations) :
        /\ observations[i].ref > 0
        /\ observations[i].views = StoredObs(observations[i].id).views + 1
        /\ observations[j].ref = 0

\* C6: no increment request is issued for a viewer who is the owner of the
\* selected observation or who is unknown; a marker click by such a viewer
\* changes the selection and nothing else.
C6_NoRequestForOwnerOrAnonymous ==
    [][ /\ \A req \in pending' \ pending :
              /\ req.viewer # Undefined
              /\ req.viewer = currentUserId'
              /\ req.viewer # StoredObs(req.id).user_id
        /\ \A i \in 1..Len(observations) :
              ( /\ SelectMarker(i)
                /\ ( currentUserId = Undefined
                     \/ currentUserId = observations[i].user_id ) )
              => /\ selectedObs' = << observations[i] >>
                 /\ UNCHANGED << pending, issued, serverViews, observations,
                                 clusters, fullScreenObs, mapView >> ]_vars

\* the viewer has selected an observation of their own and nothing was sent
C6_Witness ==
    /\ selectedObs # Null
    /\ currentUserId = selectedObs[1].user_id
    /\ issued = 0
    /\ pending = {}

\* C7: a marker click changes no locally held views value: the list is
\* unchanged and the selection carries the views of the clicked entry.
C7_SelectionDoesNotPreIncrement ==
    [][ \A i \in 1..Len(observations) :
            SelectMarker(i)
            => /\ observations' = observations
               /\ selectedObs'[1].id = observations[i].id
               /\ selectedObs'[1].views = observations[i].views ]_vars

\* an observation is selected, its request is in flight, and its views are
\* still the ones the list and the prop hold
C7_Witness ==
    /\ selectedObs # Null
    /\ selectedObs[1].ref = 0
    /\ \E req \in pending : req.id = selectedObs[1].id
    /\ \E i \in 1..Len(observations) :
           /\ observations[i].id = selectedObs[1].id
           /\ observations[i].views = selectedObs[1].views

\* ------------------------------------------------------------------------
\* Properties of the render mode selector
\* ------------------------------------------------------------------------
\* C8: the cluster list and the individual list are never both non-empty;
\* once a recomputation has run, zoom < MIN_ZOOM_LEVEL means an empty
\* individual list and zoom >= MIN_ZOOM_LEVEL an empty cluster list.
C8_ModesExclusive ==
    /\ ~ ( clusters # <<>> /\ observations # <<>> )
    /\ loaded =>
         /\ mapView.zoom < MIN_ZOOM_LEVEL => observations = <<>>
         /\ mapView.zoom >= MIN_ZOOM_LEVEL => clusters = <<>>

\* zoomed out with clusters shown after a response of an earlier selection
\* has arrived
C8_Witness ==
    /\ loaded
    /\ mapView.zoom < MIN_ZOOM_LEVEL
    /\ clusters # <<>>
    /\ observations = <<>>
    /\ selectedObs # Null
    /\ selectedObs[1].ref > 0

\* ------------------------------------------------------------------------
\* Properties of the spatial filter and of the grid clusterer
\* ------------------------------------------------------------------------
Inside(obs, b) ==
    /\ b.minLng <= obs.longitude /\ obs.longitude <= b.maxLng
    /\ b.minLat <= obs.latitude /\ obs.latitude <= b.maxLat

\* C9: the filter keeps exactly the observations with
\* minLng <= longitude <= maxLng and minLat <= latitude <= maxLat, in their
\* order; an empty list gives an empty list; for the bounds
\* (-120, 30, -110, 40) the points (-115, 35) and (-119, 31) are kept and
\* (-105, 50) is dropped.
C9_FilterInclusive ==
    fnStep \in {"filtered", "clustered"} =>
        /\ \A i \in 1..Len(fnObs) :
              Inside(fnObs[i], fnBounds)
              <=> \E j \in 1..Len(fnFiltered) : fnFiltered[j] = fnObs[i]
        /\ \A j \in 1..Len(fnFiltered) :
              \E i \in 1..Len(fnObs) : fnObs[i] = fnFiltered[j]
        /\ \A j, k \in 1..Len(fnFiltered) : j < k => fnFiltered[j].id < fnFiltered[k].id
        /\ fnObs = <<>> => fnFiltered = <<>>
        /\ ( /\ fnBounds = Bnd(-120, 30, -110, 40)
             /\ fnObs = ObsAt(<< << -115, 35 >>, << -119, 31 >>, << -105, 50 >> >>) )
           => fnFiltered = << fnObs[1], fnObs[2] >>

\* the example of the three observations has been filtered, and so has a
\* list with a point on the upper corner of the bounds
C9_Witness ==
    /\ fnStep = "filtered"
    /\ fnBounds = Bnd(-120, 30, -110, 40)
    /\ fnObs = ObsAt(<< << -115, 35 >>, << -110, 40 >>, << -105, 50 >> >>)
    /\ Len(fnFiltered) = 2

RECURSIVE SumCounts(_)
SumCounts(cs) == IF cs = <<>> THEN 0 ELSE Head(cs).count + SumCounts(Tail(cs))

CountsPartition(input, cs) ==
    /\ input = <<>> => cs = <<>>
    /\ input # <<>> =>
         /\ SumCounts(cs) = Len(input)
         /\ \A i \in 1..Len(cs) : cs[i].count >= 1

\* C10: createClusters puts each observation into exactly one cluster: the
\* counts sum to the input size and each is at least 1; an empty input gives
\* an empty cluster list.
C10_ClusterCountsPartition ==
    /\ fnStep = "clusteredAll" => CountsPartition(fnObs, fnClusters)
    /\ fnStep = "clustered" => CountsPartition(fnFiltered, fnClusters)

\* three observations, two of them in one grid cell
C10_Witness ==
    /\ fnStep = "clusteredAll"
    /\ Len(fnObs) = 3
    /\ Len(fnClusters) = 2
    /\ \E i \in 1..2 : fnClusters[i].count = 2

\* the observations of input that createClusters puts in the cell of input[i]
CellMates(input, b, i) ==
    { j \in 1..Len(input) :
        cellKey(input[j], b, DefaultGridSize) = cellKey(input[i], b, DefaultGridSize) }

RECURSIVE SumOver(_, _, _)
SumOver(input, S, field) ==
    IF S = {} THEN 0
    ELSE LET j == CHOOSE x \in S : TRUE
         IN  input[j][field] + SumOver(input, S \ {j}, field)

\* c is the cluster of the cell members M of input: its count is their number
\* and each center coordinate times the count is the sum of that coordinate
IsMeanOf(c, input, M) ==
    /\ c.count = Cardinality(M)
    /\ c.center.lat.den > 0 /\ c.center.lng.den > 0
    /\ c.center.lat.num * c.count = SumOver(input, M, "latitude") * c.center.lat.den
    /\ c.center.lng.num * c.count = SumOver(input, M, "longitude") * c.center.lng.den

CentersAreMeans(input, b, cs) ==
    /\ \A k \in 1..Len(cs) :
          \E i \in 1..Len(input) : IsMeanOf(cs[k], input, CellMates(input, b, i))
    /\ \A i \in 1..Len(input) :
          \E k \in 1..Len(cs) : IsMeanOf(cs[k], input, CellMates(input, b, i))
    /\ Len(cs) = Cardinality({ CellMates(input, b, i) : i \in 1..Len(input) })

\* C11: the center of every cluster createClusters emits is the arithmetic
\* mean of exactly the observations of its grid cell: center.lat * count is
\* the sum of their latitudes and center.lng * count the sum of their
\* longitudes, the two never exchanged.
C11_CenterIsMeanOfCell ==
    /\ fnStep = "clusteredAll" => CentersAreMeans(fnObs, fnBounds, fnClusters)
    /\ fnStep = "clustered" => CentersAreMeans(fnFiltered, fnBounds, fnClusters)

\* a cell of two observations whose mean longitude is not an integer, next
\* to a second cell
C11_Witness ==
    /\ fnStep = "clusteredAll"
    /\ Len(fnClusters) = 2
    /\ \E k \in 1..2 :
          /\ fnClusters[k].count = 2
          /\ fnClusters[k].center.lng.den = 2
          /\ fnClusters[k].center.lat # fnClusters[k].center.lng

\* a step that recomputes the visible set with the map instance present
Recomputation ==
    \/ OnLoad
    \/ SettleTimer /\ mapReady
    \/ \E vp \in Viewports : handleMoveEnd(vp)

\* the observations of the input list inside the viewport, in input order
InsideView(mv) == SelectSeq(initialObservations, LAMBDA o : Inside(o, mv))

\* C12: a recomputation at zoom 6 or more, the threshold included, makes the
\* individual list the filter's output over the observation list and clears
\* the clusters, whatever mode was shown before.
C12_ZoomedInShowsFiltered ==
    [][ ( Recomputation /\ mapView'.zoom >= 6 )
        => ( observations' = InsideView(mapView') /\ clusters' = <<>> ) ]_vars

\* at the threshold zoom, two of the three observations listed, no cluster
C12_Witness ==
    /\ loaded
    /\ mapView.zoom = 6
    /\ Len(observations) = 2
    /\ clusters = <<>>

\* C13: a recomputation at a zoom below 6 makes the clusters the clusterer's
\* output over exactly the filtered observations (the counts sum to the number
\* of input observations inside the bounds), built from the current input
\* alone, and empties the individual list.
C13_ZoomedOutShowsClusters ==
    [][ ( Recomputation /\ mapView'.zoom < 6 )
        => ( /\ observations' = <<>>
             /\ clusters' = createClusters(InsideView(mapView'), mapView', 10)
             /\ SumCounts(clusters') = Len(InsideView(mapView')) ) ]_vars

\* zoomed out over bounds holding two of the three observations
C13_Witness ==
    /\ loaded
    /\ mapView.zoom = 5
    /\ observations = <<>>
    /\ clusters # <<>>
    /\ SumCounts(clusters) = 2

\* ------------------------------------------------------------------------
\* Properties of the creation form's location
\* ------------------------------------------------------------------------
\* the image exifParsed stages for the file awaited
Staged(exif) ==
    [ preview |-> batch[1].preview,
      hasGps |-> extractGpsFromImage(exif) # Null,
      gps |-> extractGpsFromImage(exif) ]

\* the form holds the coordinates of the GPS-bearing image img
HoldsGpsOf(f, img) ==
    /\ parseFloat(f.lat) = << img.gps[1].lat >>
    /\ parseFloat(f.lng) = << img.gps[1].lng >>

\* C14: first-GPS-wins. When a GPS-bearing image of a batch is staged while the
\* form holds no coordinates, the form adopts its coordinates and the picker
\* is hidden; when the form holds the coordinates adopted from an earlier image
\* of the same batch, staging a further GPS-bearing image leaves them in place.
C14_FirstGpsWins ==
    [][ \A exif \in ExifOutcomes :
          ( exifParsed(exif) /\ ~formGone /\ Staged(exif).hasGps )
          => /\ ( form.lat = "" /\ form.lng = "" )
                  => ( HoldsGpsOf(form', Staged(exif)) /\ ~form'.showMap )
             /\ \A i \in 1..Len(batch[1].newImageFiles) :
                  LET first == batch[1].newImageFiles[i]
                  IN  ( first.hasGps /\ adoptedFrom = first.preview
                        /\ HoldsGpsOf(form, first) )
                      => HoldsGpsOf(form', first) ]_vars

\* C15: after a click on the picker map the form's latitude and longitude
\* read back as the clicked point, the picker is hidden and the manual marker
\* is the clicked point, whatever the form held before.
C15_MapClickOverrides ==
    [][ \A pt \in ClickPoints :
          handleMapClick(pt)
          => /\ parseFloat(form'.lat) = << pt.lat >>
             /\ parseFloat(form'.lng) = << pt.lng >>
             /\ ~form'.showMap
             /\ form'.mapMarker = << pt >> ]_vars

\* the clicked point held by a form that stages a GPS-bearing image
C15_Witness ==
    /\ manualPick /\ ~formGone
    /\ \E pt \in ClickPoints :
          /\ form.lat = toString(pt.lat) /\ form.lng = toString(pt.lng)
          /\ form.mapMarker = << pt >>
    /\ ~form.showMap
    /\ \E i \in 1..Len(form.imageFiles) : form.imageFiles[i].hasGps

\* C16: a coordinate pair chosen by hand (adopted from no image), a map click
\* made while the extraction of a batch is pending included, is never
\* overwritten when an image of that batch is staged.
C16_ChosenPairNotOverwritten ==
    [][ \A exif \in ExifOutcomes :
          ( exifParsed(exif) /\ ~formGone
            /\ form.lat # "" /\ form.lng # "" /\ adoptedFrom = 0 )
          => ( form'.lat = form.lat /\ form'.lng = form.lng ) ]_vars

\* C17: removing the image the form's coordinates were adopted from, when no
\* remaining image is GPS-bearing and no manual pick was made, clears latitude
\* and longitude and shows the picker; removing any other image leaves the
\* coordinates as they were.
C17_RemovalClearsOnlyItsOwn ==
    [][ \A index \in 1..MaxPreviews :
          removeImage(index)
          => LET source == adoptedFrom # 0
                           /\ form.imageFiles[index].preview = adoptedFrom
             IN  /\ ( source /\ ~manualPick
                      /\ NoneHasGps(Without(form.imageFiles, index)) )
                    => ( form'.lat = "" /\ form'.lng = "" /\ form'.showMap )
                 /\ ~source => ( form'.lat = form.lat /\ form'.lng = form.lng ) ]_vars

\* C18: when a batch ends, if the form held no coordinates when the images
\* were added and none of the images the batch stages is GPS-bearing, the
\* picker is shown; if one of them is GPS-bearing, the end of the batch does
\* not show a picker that was hidden.
C18_PickerAfterBatch ==
    [][ \A exif \in ExifOutcomes :
          ( exifParsed(exif) /\ ~formGone /\ batch' = Null )
          => LET b == batch[1]
                 new == Append(b.newImageFiles, Staged(exif))
             IN  /\ ( b.lat = "" /\ b.lng = "" /\ NoneHasGps(new) ) => form'.showMap
                 /\ ( ~NoneHasGps(new) /\ ~form.showMap ) => ~form'.showMap ]_vars

\* a batch of two images without GPS has ended on a form without coordinates
C18_Witness ==
    /\ batch = Null /\ ~formGone
    /\ Len(form.imageFiles) = 2 /\ NoneHasGps(form.imageFiles)
    /\ form.lat = "" /\ form.lng = ""
    /\ form.mapMarker = Null
    /\ form.showMap

\* every validation of a submission holds for the form and the session
AllValid ==
    /\ token # Null
    /\ trim(form.caption) # ""
    /\ Len(form.imageFiles) \in 1..5
    /\ ~isNaN(parseFloat(form.lat)) /\ ~isNaN(parseFloat(form.lng))
    /\ parseFloat(form.lat)[1] >= -900 /\ parseFloat(form.lat)[1] <= 900
    /\ parseFloat(form.lng)[1] >= -1800 /\ parseFloat(form.lng)[1] <= 1800

\* C19: a submission issues a create request only if every validation holds;
\* when one fails no request is sent and nothing of the form changes but the
\* error message, which is set. A caption of blanks, latitude 91 and
\* longitude -181 are among the failures.
C19_RequestOnlyIfValid ==
    [][ handleSubmit
        => /\ ( sent' # sent \/ upload' # upload ) => AllValid
           /\ ~AllValid
                => /\ sent' = sent /\ upload' = upload
                   /\ form'.error # ""
                   /\ form' = [ form EXCEPT !.error = form'.error ]
           /\ ( form.caption = "  " \/ form.lat = "91" \/ form.lng = "-181" )
                => ~AllValid ]_vars

\* a submission with a caption and an image was refused for latitude 91
C19_Witness ==
    /\ form.error = "Latitude must be between -90 and 90"
    /\ form.lat = "91" /\ form.lng = "-122"
    /\ form.caption = " hi " /\ Len(form.imageFiles) = 1
    /\ sent = 0 /\ upload = Null /\ ~form.loading

\* C20: no preview is released twice, and once the form is gone and its
\* pending calls have ended every preview created has been released.
C20_PreviewsReleasedOnce ==
    /\ \A p \in 1..created : revoked[p] <= 1
    /\ ( formGone /\ batch = Null /\ upload = Null )
         => \A p \in 1..created : revoked[p] = 1

C22_BoundaryAccepted ==
    [][ ( /\ handleSubmit
          /\ token # Null
          /\ form.caption = " hi "
          /\ Len(form.imageFiles) \in 1..5
          /\ form.lat \in { "-90", "90" }
          /\ form.lng \in { "-180", "180" } )
        => /\ sent' = sent + 1
           /\ upload' # Null
           /\ upload'[1].request.caption = "hi"
           /\ upload'[1].request.latitude = form.lat
           /\ upload'[1].request.longitude = form.lng
           /\ upload'[1].request.images
                = [ i \in 1..Len(form.imageFiles) |-> form.imageFiles[i].preview ] ]_vars

\* the request for latitude -90 and longitude 180 with two images in flight
C22_Witness ==
    /\ upload # Null
    /\ upload[1].request.caption = "hi"
    /\ upload[1].request.latitude = "-90"
    /\ upload[1].request.longitude = "180"
    /\ upload[1].request.images = << 1, 2 >>
    /\ sent = 1

\* C27: when the create request fails (the fetch rejects or the status is not
\* a success) the form stays populated: caption, staged images, latitude,
\* longitude and manual marker are unchanged, the form stays open (the success
\* callback is not called), the submitting flag is false again, and for a
\* refusal whose body carries a detail text the message shown is that text.
C27_FailureKeepsForm ==
    [][ \A detail \in ErrorDetails :
          ( ( createRejected(detail) \/ createNetworkError ) /\ ~formGone )
          => /\ form'.caption = form.caption
             /\ form'.imageFiles = form.imageFiles
             /\ form'.lat = form.lat /\ form'.lng = form.lng
             /\ form'.mapMarker = form.mapMarker
             /\ ~formGone'
             /\ ~form'.loading
             /\ ( createRejected(detail) /\ detail # Null /\ detail # << "" >> )
                  => form'.error = detail[1] ]_vars

\* the refusal "Invalid image" shown on a form still holding what was sent
C27_Witness ==
    /\ ~formGone /\ upload = Null /\ sent = 1
    /\ form.error = "Invalid image"
    /\ ~form.loading
    /\ form.caption = " hi " /\ Len(form.imageFiles) = 1
    /\ form.lat = "37.0" /\ form.lng = "-122"

\* the message the order authentication, caption, no image, more than 5
\* images, coordinate parsing, latitude range, longitude range gives
MessageInOrder ==
    IF token = Null THEN "You must be logged in to create an observation"
    ELSE IF form.caption \in { "", "  " } THEN "Caption is required"
    ELSE IF form.imageFiles = <<>> THEN "At least one image is required"
    ELSE IF Len(form.imageFiles) > 5 THEN "Maximum 5 images allowed"
    ELSE IF form.lat = "" \/ form.lng = "" THEN "Valid latitude and longitude are required"
    ELSE IF form.lat = "91" THEN "Latitude must be between -90 and 90"
    ELSE IF form.lng = "-181" THEN "Longitude must be between -180 and 180"
    ELSE ""

\* C28: a submission failing several checks at once shows the message of the
\* first failing check in the order authentication, caption, image count,
\* coordinate parsing, latitude range, longitude range, and only that one.
C28_FirstFailureShown ==
    [][ handleSubmit
        => /\ form'.error = MessageInOrder
           /\ MessageInOrder # "" => ( sent' = sent /\ upload' = upload ) ]_vars

\* blank caption, no image and latitude 91 together: the caption is named
C28_Witness ==
    /\ form.caption = "  " /\ form.imageFiles = <<>>
    /\ form.lat = "91" /\ form.lng = "-181"
    /\ form.error = "Caption is required"
    /\ sent = 0 /\ created = 0

\* ------------------------------------------------------------------------
\* Properties of staging
\* ------------------------------------------------------------------------
\* the files of a selection that fit the slots left beside staged images
Fitting(files, staged) == SubSeq(files, 1, Min(Len(files), 5 - staged))

\* C23: the number of staged images never exceeds 5, and each addition takes
\* at most (5 - currently staged) files of the selection and drops the rest.
C23_AtMostFiveStaged ==
    /\ [] ( Len(form.imageFiles) <= 5 )
    /\ [][ \A files \in FileLists({ "image" }) :
              handleFileChangeWithin(files, CapPreviews)
              => /\ batch' # Null
                 /\ batch'[1].filesToAdd = Fitting(files, Len(form.imageFiles))
                 /\ Len(batch'[1].filesToAdd) <= 5 - Len(form.imageFiles) ]_vars

\* five images staged, the sixth object URL never created
C23_Witness ==
    /\ Len(form.imageFiles) = 5
    /\ batch = Null
    /\ created = 5

\* the message of the last refused file of a list, "" when none is refused
RECURSIVE LastRefusal(_)
LastRefusal(files) ==
    IF files = <<>> THEN ""
    ELSE IF files[Len(files)] = "notImage" THEN "is not a valid image file"
    ELSE IF files[Len(files)] = "tooLarge" THEN "is too large. Maximum size is 10MB"
    ELSE LastRefusal(SubSeq(files, 1, Len(files) - 1))

\* a batch over the files taken ends with every image of at most 10MB among
\* them added to the list staged, nothing else added, and the message of a
\* refused file shown when one was refused
BatchEnds(staged, taken) ==
    /\ Len(form'.imageFiles) = Len(staged) + Accepted(taken)
    /\ SubSeq(form'.imageFiles, 1, Len(staged)) = staged
    /\ form'.error = LastRefusal(taken)

\* C24: in one batch a file that is not an image or is above 10MB is refused
\* with a message and never staged, and every other valid file of the batch,
\* before or after it, is staged.
C24_RefusalDoesNotStopBatch ==
    [][ /\ \A files \in FileLists(FileKinds) :
              ( handleFileChange(files) /\ batch' = Null )
              => BatchEnds(form.imageFiles, Fitting(files, Len(form.imageFiles)))
        /\ \A exif \in StageExif :
              ( exifParsed(exif) /\ batch' = Null /\ ~formGone )
              => BatchEnds(batch[1].imageFiles, batch[1].filesToAdd) ]_vars

\* a batch of a refused file and an image has ended with the image staged
C24_Witness ==
    /\ batch = Null /\ ~formGone
    /\ Len(form.imageFiles) = 1
    /\ created = 1
    /\ form.error = "is not a valid image file"

\* C25: when the extraction fails for a file, the file is staged without GPS
\* and without coordinates, the form's coordinates stay, the batch goes on
\* with its remaining files, and the extracting flag is reset when the batch
\* ends.
C25_FailedExtractionStaged ==
    /\ [] ( ( batch = Null /\ ~formGone ) => ~form.extractingExif )
    /\ [][ ( exifParsed(Exif("throws", 0, 0)) /\ ~formGone )
            => LET b == batch[1]
                   img == [ preview |-> b.preview, hasGps |-> FALSE, gps |-> Null ]
               IN  /\ form'.lat = form.lat /\ form'.lng = form.lng
                   /\ ( batch' = Null ) <=> ( Accepted(b.queue) = 0 )
                   /\ batch' # Null
                        => /\ batch'[1].newImageFiles = Append(b.newImageFiles, img)
                           /\ form'.extractingExif
                   /\ batch' = Null
                        => /\ form'.imageFiles
                                = b.imageFiles \o Append(b.newImageFiles, img)
                           /\ ~form'.extractingExif ]_vars

\* the first image of a batch of two is staged without GPS, the second awaited
C25_Witness ==
    /\ batch # Null /\ ~formGone
    /\ Len(batch[1].newImageFiles) = 1
    /\ ~batch[1].newImageFiles[1].hasGps
    /\ batch[1].preview = 2
    /\ form.extractingExif
    /\ form.lat = "" /\ form.lng = ""

\* ------------------------------------------------------------------------
\* Properties of the recomputation's inputs
\* ------------------------------------------------------------------------
\* C29: while the map is not created, an invocation of the recomputation (the
\* settling timer, the load or the move-end handler) leaves the clusters, the
\* individual list and the selection as they are, does not call
\* onViewportChange and raises no error.
C29_NoOpBeforeMapReady ==
    [][ ( ~mapReady /\ ( SettleTimer \/ OnLoad \/ \E vp \in Viewports : handleMoveEnd(vp) ) )
        => UNCHANGED << clusters, observations, selectedObs, reported, mounted >> ]_vars

\* the settling timer has fired before the map was created
C29_Witness ==
    /\ mounted /\ ~mapReady /\ ~timerPending
    /\ reported = Null

\* what a recomputation over list at viewport mv shows
ShownFrom(list, mv) ==
    LET f == SelectSeq(list, LAMBDA o : Inside(o, mv))
    IN  IF mv.zoom < 6
        THEN observations = <<>> /\ clusters = createClusters(f, mv, DefaultGridSize)
        ELSE observations = f /\ clusters = <<>>

C26_FetchFailureFallsBack ==
    /\ [][ \A n \in 1..MaxFetches :
              /\ \A message \in FetchErrors :
                    fetchFailed(n, message)
                    => /\ allObservations' = MOCK_OBSERVATIONS
                       /\ error' # Null
                       /\ ~loading'
              /\ \A data \in ServerRows : fetchSucceeded(n, data) => ~loading' ]_vars
    /\ <> ~loading

\* the first fetch was rejected: the placeholders are shown with the message
C26_Witness ==
    /\ ~loading
    /\ fetches = {}
    /\ fetched = 1
    /\ allObservations = MOCK_OBSERVATIONS
    /\ error = << "Backend server not available - using mock data" >>

\* ------------------------------------------------------------------------
\* Properties of merged view counts and late responses
\* ------------------------------------------------------------------------
\* C31: an entry of the individual list that was merged from a success
\* response (its views are the returned views) is still shown with those
\* views after a recomputation at zoom 6 or more whose bounds contain it.
C31_MergedViewsSurviveRecomputation ==
    [][ ( Recomputation /\ mapView'.zoom >= MIN_ZOOM_LEVEL )
        => \A i \in 1..Len(observations) :
              ( observations[i].ref > 0 /\ Inside(observations[i], mapView') )
              => \E j \in 1..Len(observations') :
                    /\ observations'[j].id = observations[i].id
                    /\ observations'[j].views = observations[i].views ]_vars

\* C32: a success response that arrives when the selection is empty (the
\* popup was closed, or the full-screen view was opened) leaves the selection
\* empty and issues no further increment request.
C32_LateResponseKeepsPopupClosed ==
    [][ \A req \in pending :
            ( ResponseSuccess(req) /\ selectedObs = Null )
            => ( selectedObs' = Null /\ issued' = issued ) ]_vars

\* a cell index createClusters may use for a grid of gridSize cells a side
CellIndexInGrid(c, gridSize) == c.kind = "int" /\ c.n \in 0..(gridSize - 1)

\* C33: for bounds of positive width and height, every observation that
\* passed the inclusive filter gets cell indices cellX and cellY in
\* 0..gridSize-1, the observations on the maxLng or maxLat edge included, and
\* createClusters emits at most gridSize * gridSize clusters.
C33_CellIndicesInGrid ==
    /\ ( /\ fnStep \in { "filtered", "clustered" }
         /\ fnBounds.maxLng > fnBounds.minLng
         /\ fnBounds.maxLat > fnBounds.minLat )
         => \A i \in 1..Len(fnFiltered) :
               LET key == cellKey(fnFiltered[i], fnBounds, DefaultGridSize)
               IN  /\ CellIndexInGrid(key[1], DefaultGridSize)
                   /\ CellIndexInGrid(key[2], DefaultGridSize)
    /\ fnStep = "clustered" => Len(fnClusters) <= DefaultGridSize * DefaultGridSize

\* ------------------------------------------------------------------------
\* Properties of the coordinates adopted from images
\* ------------------------------------------------------------------------
\* the form's coordinates are the GPS coordinates of the staged image img
CoordinatesOf(img) ==
    /\ img.hasGps
    /\ form.lat = toString(img.gps[1].lat)
    /\ form.lng = toString(img.gps[1].lng)

\* C34: with images added and removed only (no map click, no typed
\* coordinate), whenever no batch is pending the form's coordinates are
\* empty or are the GPS coordinates of an image that is still staged.
C34_AdoptedSourceIsStaged ==
    ( ~formGone /\ batch = Null )
    => \/ form.lat = "" /\ form.lng = ""
       \/ \E i \in 1..Len(form.imageFiles) : CoordinatesOf(form.imageFiles[i])

\* C35: when a batch ends, the list staged is the list as it is at that
\* moment (images removed while the batch was pending stay removed) followed
\* by the files the batch accepted; and no staged entry refers to a preview
\* that has been released.
C35_RemovalDuringBatchStays ==
    /\ [] ( ~formGone
            => \A i \in 1..Len(form.imageFiles) :
                  revoked[form.imageFiles[i].preview] = 0 )
    /\ [][ \A exif \in StageExif :
              ( exifParsed(exif) /\ batch' = Null /\ ~formGone )
              => /\ Len(form'.imageFiles)
                      = Len(form.imageFiles) + Accepted(batch[1].filesToAdd)
                 /\ SubSeq(form'.imageFiles, 1, Len(form.imageFiles))
                      = form.imageFiles ]_vars

\* ------------------------------------------------------------------------
\* Properties of overlapping fetches of the page
\* ------------------------------------------------------------------------
\* a fetch issued after fetch n has settled already
LaterSettled(n) == \E m \in (n + 1)..fetched : m \notin fetches

\* C36: the answer or the failure of a fetch that settles after a fetch
\* issued later has settled does not replace the list the later fetch gave.
C36_LatestFetchWins ==
    [][ \A n \in 1..MaxFetches :
          ( /\ LaterSettled(n)
            /\ \/ \E data \in ServerRows : fetchSucceeded(n, data)
               \/ \E message \in FetchErrors : fetchFailed(n, message) )
          => allObservations' = allObservations ]_vars

\* ------------------------------------------------------------------------
\* Properties of the session
\* ------------------------------------------------------------------------
\* C37: once logout has been called and until a login call starts, token and
\* user are null and the entries auth_token and auth_user are absent, also
\* when the verification started at mount ends after the logout.
C37_LogoutStaysCleared ==
    loggedOut
    => /\ token = Null /\ authUser = Null
       /\ localStorage = EmptyStorage

\* C38: a login the backend rejects throws and leaves token, user and both
\* stored entries as they were; isAuthenticated holds exactly when token is
\* not null; and when a login, a logout or the mount-time load has ended,
\* token is the stored auth_token.
C38_SessionConsistent ==
    /\ [] ( isAuthenticated <=> token # Null )
    /\ [][ \A l \in logins :
              loginRejected(l)
              => /\ l.n \in rejected'
                 /\ UNCHANGED << token, authUser, localStorage >> ]_vars
    /\ [][ ( \/ logout
             \/ \E l \in logins : meOk(l) \/ meNotOk(l)
             \/ verifyOk \/ verifyNotOk \/ verifyNetworkError
             \/ Reload /\ verifying' = Null )
           => token' = localStorage'.auth_token ]_vars

====
